---------------------------- MODULE Spec2Model ----------------------------
(***************************************************************************)
(* A model of the chess engine of src/src/lib.rs: the Game struct (fen,    *)
(* board, checks, game_status), its constructor new_from_fen, and the      *)
(* operations make_move and set_promotion, with the move generator, the    *)
(* check detector, the legality filter and the move executor translated    *)
(* from the Rust code.                                                     *)
(*                                                                         *)
(* Representation.  A Rust char is a one-character string.  A Rust String  *)
(* (fen, castling_availability, en_passant_square) is a sequence of such   *)
(* characters.  A coordinate Vec<i32> [row, col] is the tuple <<row, col>> *)
(* (0-based values).  board_state is a sequence of 8 rows of 8 characters; *)
(* row r, column c of the code is board_state[r+1][c+1].  A Vec of moves   *)
(* is a sequence (order and duplicates kept); the HashMap returned by      *)
(* get_available_moves_internal is the set of its <<key, value>> entries.  *)
(***************************************************************************)
EXTENDS Integers, Sequences, FiniteSets, TLC

\* fen, board, checks, game_status: the fields of Game (lines 313-319).
\* scenario: which initial position and caller script the run uses.
\* op, ret: the last operation called and what it returned ("panic" when it
\* aborted).  history: the <<source, target>> arguments of the make_move
\* calls that moved a piece, in order.  ply: their number.
\* arg: the argument of the last set_promotion call ("none" before the first).
VARIABLES fen, board, checks, game_status, scenario, op, ret, history, ply, arg

game == <<fen, board, checks, game_status>>
vars == <<fen, board, checks, game_status, scenario, op, ret, history, ply, arg>>

(***************************************************************************)
(* Characters                                                              *)
(***************************************************************************)
Upper == {"P", "N", "B", "R", "Q", "K"}
Lower == {"p", "n", "b", "r", "q", "k"}

is_ascii_uppercase(c) == c \in Upper
is_ascii_lowercase(c) == c \in Lower

to_ascii_lowercase(c) ==
    CASE c = "P" -> "p" [] c = "N" -> "n" [] c = "B" -> "b"
      [] c = "R" -> "r" [] c = "Q" -> "q" [] c = "K" -> "k"
      [] OTHER -> c

to_ascii_uppercase(c) ==
    CASE c = "p" -> "P" [] c = "n" -> "N" [] c = "b" -> "B"
      [] c = "r" -> "R" [] c = "q" -> "Q" [] c = "k" -> "K"
      [] OTHER -> c

eq_ignore_ascii_case(c, d) == to_ascii_lowercase(c) = to_ascii_lowercase(d)

col_names == <<"a", "b", "c", "d", "e", "f", "g", "h">>
Digits == <<"0", "1", "2", "3", "4", "5", "6", "7", "8", "9">>

is_numeric(c) == \E i \in 1..10 : Digits[i] = c
to_digit(c) == (CHOOSE i \in 1..10 : Digits[i] = c) - 1

min(a, b) == IF a < b THEN a ELSE b

(***************************************************************************)
(* Square notation (lines 105-123)                                         *)
(***************************************************************************)
\* A variant of get_board_coords that counts the rows from rank 1 upwards.
get_board_coords_unflipped(algebraic_notation) ==
    LET col_number == (CHOOSE i \in 1..8 : col_names[i] = algebraic_notation[1]) - 1
        row_number == to_digit(algebraic_notation[2])
    IN  <<row_number - 1, col_number>>

get_board_coords(algebraic_notation) ==
    LET col_number == (CHOOSE i \in 1..8 : col_names[i] = algebraic_notation[1]) - 1
        row_number == to_digit(algebraic_notation[2])
    IN  <<8 - row_number, col_number>>

get_algebraic_notation(coords) ==
    <<col_names[coords[2] + 1], Digits[(8 - coords[1]) + 1]>>

(***************************************************************************)
(* Board access (lines 125-135, 1027-1029).  OnBoard is the range in which *)
(* a Vec index succeeds; At gives "oob" where the Rust index would abort   *)
(* (the abort itself is accounted for by the ...Panics predicates below).  *)
(***************************************************************************)
OnBoard(y, x) == y >= 0 /\ y <= 7 /\ x >= 0 /\ x <= 7

At(bs, y, x) == IF OnBoard(y, x) THEN bs[y + 1][x + 1] ELSE "oob"

get_piece(b, coords) == At(b.board_state, coords[1], coords[2])

is_enemy_piece(active_player, piece) ==
    \/ (active_player = "w" /\ is_ascii_lowercase(piece))
    \/ (active_player = "b" /\ is_ascii_uppercase(piece))

is_friendly_piece(active_player, piece) ==
    \/ (active_player = "w" /\ is_ascii_uppercase(piece))
    \/ (active_player = "b" /\ is_ascii_lowercase(piece))

SetSquare(bs, y, x, piece) ==
    [bs EXCEPT ![y + 1] = [@ EXCEPT ![x + 1] = piece]]

set_piece(b, coords, piece) ==
    [b EXCEPT !.board_state = SetSquare(@, coords[1], coords[2], piece)]


(***************************************************************************)
(* Pseudo-legal move generation: Board::get_piece_movements (lines         *)
(* 508-925).                                                               *)
(***************************************************************************)
NoEp == <<"-">>

\* `if cond { move_list.push(m) }`
PushIf(cond, m) == IF cond THEN <<m>> ELSE <<>>

\* One ray loop of the bishop (lines 585-677) or the rook (lines 735-840):
\* steps k..n from (y, x) in direction (dy, dx); break before a friendly
\* piece, push the square, break after an enemy piece.
RECURSIVE Walk(_, _, _, _, _, _, _, _)
Walk(bs, color, y, x, dy, dx, k, n) ==
    IF k > n THEN <<>>
    ELSE LET p == At(bs, y + k * dy, x + k * dx)
         IN  IF is_friendly_piece(color, p) THEN <<>>
             ELSE IF is_enemy_piece(color, p) THEN << <<y + k * dy, x + k * dx>> >>
             ELSE << <<y + k * dy, x + k * dx>> >>
                  \o Walk(bs, color, y, x, dy, dx, k + 1, n)

\* A variant of Step that stops at the edge of the board only.
StepOntoAny(bs, color, y, x) == PushIf(OnBoard(y, x), <<y, x>>)

\* One destination of the knight (lines 681-729) or of the king (lines
\* 854-902): the code's range test for (y, x), then enemy piece or '*'.
Step(bs, color, y, x) ==
    PushIf(OnBoard(y, x)
             /\ (is_enemy_piece(color, At(bs, y, x)) \/ At(bs, y, x) = "*"),
           <<y, x>>)

\* A variant of the pawn's moves without the first-move advance of two rows.
PawnMovesSingle(b, y_pos, x_pos, color) ==
    LET bs == b.board_state
        ep == b.en_passant_square
        d  == IF color = "w" THEN -1 ELSE 1
    IN  IF color \notin {"w", "b"} THEN <<>>
        ELSE
            PushIf(At(bs, y_pos + d, x_pos) = "*", <<y_pos + d, x_pos>>)
         \o PushIf(x_pos - 1 > 0 /\ is_enemy_piece(color, At(bs, y_pos + d, x_pos - 1)),
                   <<y_pos + d, x_pos - 1>>)
         \o PushIf(x_pos + 1 < 8 /\ is_enemy_piece(color, At(bs, y_pos + d, x_pos + 1)),
                   <<y_pos + d, x_pos + 1>>)
         \o (IF ep # NoEp
             THEN PushIf(x_pos - 1 > 0
                           /\ get_board_coords(ep) = <<y_pos + d, x_pos - 1>>,
                         <<y_pos + d, x_pos - 1>>)
               \o PushIf(x_pos + 1 < 8
                           /\ get_board_coords(ep) = <<y_pos + d, x_pos + 1>>,
                         <<y_pos + d, x_pos + 1>>)
             ELSE <<>>)

\* A variant of the pawn's moves whose first-move advance does not look at
\* the square passed over.
PawnMovesJumping(b, y_pos, x_pos, color) ==
    LET bs == b.board_state
        ep == b.en_passant_square
        d  == IF color = "w" THEN -1 ELSE 1
        home == IF color = "w" THEN 6 ELSE 1
    IN  IF color \notin {"w", "b"} THEN <<>>
        ELSE
            PushIf(At(bs, y_pos + d, x_pos) = "*", <<y_pos + d, x_pos>>)
         \o PushIf(x_pos - 1 > 0 /\ is_enemy_piece(color, At(bs, y_pos + d, x_pos - 1)),
                   <<y_pos + d, x_pos - 1>>)
         \o PushIf(x_pos + 1 < 8 /\ is_enemy_piece(color, At(bs, y_pos + d, x_pos + 1)),
                   <<y_pos + d, x_pos + 1>>)
         \o PushIf(y_pos = home /\ At(bs, y_pos + 2 * d, x_pos) = "*",
                   <<y_pos + 2 * d, x_pos>>)
         \o (IF ep # NoEp
             THEN PushIf(x_pos - 1 > 0
                           /\ get_board_coords(ep) = <<y_pos + d, x_pos - 1>>,
                         <<y_pos + d, x_pos - 1>>)
               \o PushIf(x_pos + 1 < 8
                           /\ get_board_coords(ep) = <<y_pos + d, x_pos + 1>>,
                         <<y_pos + d, x_pos + 1>>)
             ELSE <<>>)

PawnMoves(b, y_pos, x_pos, color) ==
    LET bs == b.board_state
        ep == b.en_passant_square
        d  == IF color = "w" THEN -1 ELSE 1
        home == IF color = "w" THEN 6 ELSE 1
    IN  IF color \notin {"w", "b"} THEN <<>>
        ELSE
            PushIf(At(bs, y_pos + d, x_pos) = "*", <<y_pos + d, x_pos>>)
         \o PushIf(x_pos - 1 > 0 /\ is_enemy_piece(color, At(bs, y_pos + d, x_pos - 1)),
                   <<y_pos + d, x_pos - 1>>)
         \o PushIf(x_pos + 1 < 8 /\ is_enemy_piece(color, At(bs, y_pos + d, x_pos + 1)),
                   <<y_pos + d, x_pos + 1>>)
         \o PushIf(y_pos = home /\ At(bs, y_pos + 2 * d, x_pos) = "*"
                                /\ At(bs, y_pos + d, x_pos) = "*",
                   <<y_pos + 2 * d, x_pos>>)
         \o (IF ep # NoEp
             THEN PushIf(x_pos - 1 > 0
                           /\ get_board_coords(ep) = <<y_pos + d, x_pos - 1>>,
                         <<y_pos + d, x_pos - 1>>)
               \o PushIf(x_pos + 1 < 8
                           /\ get_board_coords(ep) = <<y_pos + d, x_pos + 1>>,
                         <<y_pos + d, x_pos + 1>>)
             ELSE <<>>)

BishopMoves(b, y_pos, x_pos, color) ==
    LET bs == b.board_state
    IN  Walk(bs, color, y_pos, x_pos, 1, 1, 1, min(8 - y_pos, 8 - x_pos) - 1)
     \o Walk(bs, color, y_pos, x_pos, 1, -1, 1, min(8 - y_pos, x_pos + 1) - 1)
     \o Walk(bs, color, y_pos, x_pos, -1, -1, 1, min(x_pos + 1, y_pos + 1) - 1)
     \o Walk(bs, color, y_pos, x_pos, -1, 1, 1, min(y_pos + 1, 8 - x_pos) - 1)

KnightMoves(b, y_pos, x_pos, color) ==
    LET bs == b.board_state
    IN  Step(bs, color, y_pos + 2, x_pos + 1)
     \o Step(bs, color, y_pos + 2, x_pos - 1)
     \o Step(bs, color, y_pos - 2, x_pos + 1)
     \o Step(bs, color, y_pos - 2, x_pos - 1)
     \o Step(bs, color, y_pos + 1, x_pos + 2)
     \o Step(bs, color, y_pos - 1, x_pos + 2)
     \o Step(bs, color, y_pos + 1, x_pos - 2)
     \o Step(bs, color, y_pos - 1, x_pos - 2)

\* A variant of the rook's moves whose lines end one square before the edge
\* of the board.
RookMovesInward(b, y_pos, x_pos, color) ==
    LET bs == b.board_state
    IN  Walk(bs, color, y_pos, x_pos, 0, -1, 1, x_pos - 1)
     \o Walk(bs, color, y_pos, x_pos, 0, 1, 1, 6 - x_pos)
     \o Walk(bs, color, y_pos, x_pos, -1, 0, 1, y_pos - 1)
     \o Walk(bs, color, y_pos, x_pos, 1, 0, 1, 6 - y_pos)

RookMoves(b, y_pos, x_pos, color) ==
    LET bs == b.board_state
    IN  Walk(bs, color, y_pos, x_pos, 0, -1, 1, x_pos)
     \o Walk(bs, color, y_pos, x_pos, 0, 1, 1, 7 - x_pos)
     \o Walk(bs, color, y_pos, x_pos, -1, 0, 1, y_pos)
     \o Walk(bs, color, y_pos, x_pos, 1, 0, 1, 7 - y_pos)

contains(str, c) == \E i \in 1..Len(str) : str[i] = c

\* The castling pseudo-moves of the king (lines 904-919).
KingCastling(b, y_pos, x_pos, color) ==
    LET bs == b.board_state
        ca == b.castling_availability
    IN  IF color = "w"
        THEN PushIf(contains(ca, "K") /\ At(bs, y_pos, x_pos + 1) = "*"
                                      /\ At(bs, y_pos, x_pos + 2) = "*",
                    <<y_pos, x_pos + 2>>)
          \o PushIf(contains(ca, "Q") /\ At(bs, y_pos, x_pos - 1) = "*"
                                      /\ At(bs, y_pos, x_pos - 2) = "*"
                                      /\ At(bs, y_pos, x_pos - 3) = "*",
                    <<y_pos, x_pos - 2>>)
        ELSE IF color = "b"
        THEN PushIf(contains(ca, "k") /\ At(bs, y_pos, x_pos + 1) = "*"
                                      /\ At(bs, y_pos, x_pos + 2) = "*",
                    <<y_pos, x_pos + 2>>)
          \o PushIf(contains(ca, "q") /\ At(bs, y_pos, x_pos - 1) = "*"
                                      /\ At(bs, y_pos, x_pos - 2) = "*",
                    <<y_pos, x_pos - 2>>)
        ELSE <<>>

KingMoves(b, y_pos, x_pos, color) ==
    LET bs == b.board_state
    IN  Step(bs, color, y_pos + 1, x_pos)
     \o Step(bs, color, y_pos - 1, x_pos)
     \o Step(bs, color, y_pos, x_pos + 1)
     \o Step(bs, color, y_pos, x_pos - 1)
     \o Step(bs, color, y_pos + 1, x_pos + 1)
     \o Step(bs, color, y_pos + 1, x_pos - 1)
     \o Step(bs, color, y_pos - 1, x_pos + 1)
     \o Step(bs, color, y_pos - 1, x_pos - 1)
     \o KingCastling(b, y_pos, x_pos, color)

\* A variant of get_piece_movements in which an empty square "moves" to
\* itself.
get_piece_movements_staying(b, coords, piece, color) ==
    LET x_pos == coords[2]
        y_pos == coords[1]
        kind  == to_ascii_lowercase(piece)
    IN  CASE kind = "p" -> PawnMoves(b, y_pos, x_pos, color)
          [] kind = "b" -> BishopMoves(b, y_pos, x_pos, color)
          [] kind = "n" -> KnightMoves(b, y_pos, x_pos, color)
          [] kind = "r" -> RookMoves(b, y_pos, x_pos, color)
          [] kind = "q" -> BishopMoves(b, y_pos, x_pos, color)
                           \o RookMoves(b, y_pos, x_pos, color)
          [] kind = "k" -> KingMoves(b, y_pos, x_pos, color)
          [] OTHER -> <<coords>>

get_piece_movements(b, coords, piece, color) ==
    LET x_pos == coords[2]
        y_pos == coords[1]
        kind  == to_ascii_lowercase(piece)
    IN  CASE kind = "p" -> PawnMoves(b, y_pos, x_pos, color)
          [] kind = "b" -> BishopMoves(b, y_pos, x_pos, color)
          [] kind = "n" -> KnightMoves(b, y_pos, x_pos, color)
          [] kind = "r" -> RookMoves(b, y_pos, x_pos, color)
          [] kind = "q" -> BishopMoves(b, y_pos, x_pos, color)
                           \o RookMoves(b, y_pos, x_pos, color)
          [] kind = "k" -> KingMoves(b, y_pos, x_pos, color)
          [] OTHER -> <<>>

\* The cases in which get_piece_movements aborts: a Vec index outside 0..7
\* (a pawn with no row ahead of it, a castling test that reads past the
\* edge of the king's row) or the `_ => panic!` arm (line 923).
PiecePanics(b, coords, piece, color) ==
    LET x == coords[2]
        y == coords[1]
        bs == b.board_state
        ca == b.castling_availability
        kind == to_ascii_lowercase(piece)
    IN  CASE kind = "p" -> (color = "w" /\ y = 0) \/ (color = "b" /\ y = 7)
          [] kind = "q" -> FALSE
          [] kind = "k" ->
               LET ks == IF color = "w" THEN "K" ELSE "k"
                   qs == IF color = "w" THEN "Q" ELSE "q"
               IN  /\ color \in {"w", "b"}
                   /\ \/ /\ contains(ca, ks)
                         /\ \/ x + 1 > 7
                            \/ (At(bs, y, x + 1) = "*" /\ x + 2 > 7)
                      \/ /\ contains(ca, qs)
                         /\ \/ x - 1 < 0
                            \/ /\ At(bs, y, x - 1) = "*"
                               /\ \/ x - 2 < 0
                                  \/ /\ color = "w"
                                     /\ At(bs, y, x - 2) = "*"
                                     /\ x - 3 < 0
          [] kind \in {"b", "n", "r", "*"} -> FALSE
          [] OTHER -> TRUE

(***************************************************************************)
(* The move executor: Board::move_piece (lines 927-1025).                  *)
(***************************************************************************)
\* String::replace(c, ""): every occurrence of the character is dropped.
replace(str, c) == SelectSeq(str, LAMBDA ch : ch # c)

\* A variant of the castling-rights update that hands all four rights back
\* once the last one is gone.
CastlingAfterRestoring(ca, piece, source) ==
    LET rook == IF piece = "R" /\ source[2] = 0 THEN replace(ca, "Q")
                ELSE IF piece = "R" /\ source[2] = 7 THEN replace(ca, "K")
                ELSE IF piece = "r" /\ source[2] = 0 THEN replace(ca, "q")
                ELSE IF piece = "r" /\ source[2] = 7 THEN replace(ca, "k")
                ELSE ca
        king == IF piece = "K" THEN replace(replace(rook, "Q"), "K")
                ELSE IF piece = "k" THEN replace(replace(rook, "q"), "k")
                ELSE rook
    IN  IF king = <<>> THEN <<"K", "Q", "k", "q">> ELSE king

\* A variant of the castling-rights update without the king's part (lines
\* 947-953).
CastlingAfterRookOnly(ca, piece, source) ==
    LET rook == IF piece = "R" /\ source[2] = 0 THEN replace(ca, "Q")
                ELSE IF piece = "R" /\ source[2] = 7 THEN replace(ca, "K")
                ELSE IF piece = "r" /\ source[2] = 0 THEN replace(ca, "q")
                ELSE IF piece = "r" /\ source[2] = 7 THEN replace(ca, "k")
                ELSE ca
    IN  IF rook = <<>> THEN <<"-">> ELSE rook

\* Lines 937-957: the castling rights after a move of `piece` from `source`.
CastlingAfter(ca, piece, source) ==
    LET rook == IF piece = "R" /\ source[2] = 0 THEN replace(ca, "Q")
                ELSE IF piece = "R" /\ source[2] = 7 THEN replace(ca, "K")
                ELSE IF piece = "r" /\ source[2] = 0 THEN replace(ca, "q")
                ELSE IF piece = "r" /\ source[2] = 7 THEN replace(ca, "k")
                ELSE ca
        king == IF piece = "K" THEN replace(replace(rook, "Q"), "K")
                ELSE IF piece = "k" THEN replace(replace(rook, "q"), "k")
                ELSE rook
    IN  IF king = <<>> THEN <<"-">> ELSE king

\* A variant of the en-passant update that never records a square.
EnPassantAfterNever(ep, piece, source, target) == NoEp

\* Lines 964-976: the en-passant square after the move.
EnPassantAfter(ep, piece, source, target) ==
    IF eq_ignore_ascii_case(piece, "p")
    THEN LET down == IF target[1] = source[1] + 2
                     THEN get_algebraic_notation(<<source[1] + 1, source[2]>>)
                     ELSE ep
         IN  IF target[1] = source[1] - 2
             THEN get_algebraic_notation(<<source[1] - 1, source[2]>>)
             ELSE down
    ELSE NoEp

\* A variant of the halfmove update that only a pawn move resets.
HalfmoveAfterPawnOnly(b, piece, target) ==
    IF eq_ignore_ascii_case(piece, "p") THEN 0 ELSE b.halfmove_counter + 1

\* Lines 960-981: the halfmove counter after the move.
HalfmoveAfter(b, piece, target) ==
    IF get_piece(b, target) # "*" \/ eq_ignore_ascii_case(piece, "p")
    THEN 0
    ELSE b.halfmove_counter + 1

\* A variant of the placement that always promotes to a queen.
PlaceAfterQueen(b, piece, source, target) ==
    LET cleared == SetSquare(b.board_state, source[1], source[2], "*")
    IN  IF eq_ignore_ascii_case(piece, "p") /\ (target[1] = 0 \/ target[1] = 7)
        THEN SetSquare(cleared, target[1], target[2],
                       IF b.active_player = "w" THEN "Q" ELSE "q")
        ELSE SetSquare(cleared, target[1], target[2], piece)

\* A variant of the placement without promotion: the pawn stays a pawn.
PlaceAfterPlain(b, piece, source, target) ==
    SetSquare(SetSquare(b.board_state, source[1], source[2], "*"),
              target[1], target[2], piece)

\* Lines 982-992: the source square is emptied and the target square filled,
\* with the promotion piece for a pawn that lands on row 0 or row 7.
PlaceAfter(b, piece, source, target) ==
    LET cleared == SetSquare(b.board_state, source[1], source[2], "*")
    IN  IF eq_ignore_ascii_case(piece, "p") /\ (target[1] = 0 \/ target[1] = 7)
        THEN IF b.active_player = "w"
             THEN SetSquare(cleared, target[1], target[2],
                            to_ascii_uppercase(b.promotion_selection))
             ELSE IF b.active_player = "b"
             THEN SetSquare(cleared, target[1], target[2],
                            to_ascii_lowercase(b.promotion_selection))
             ELSE cleared
        ELSE SetSquare(cleared, target[1], target[2], piece)

\* A variant of the en-passant removal that takes nothing off the board.
EnPassantRemovalNone(bs, active_player, ep, target) == bs

\* Lines 993-1002: a move onto the recorded en-passant square empties the
\* square one row behind it, as seen from the active player.
EnPassantRemoval(bs, active_player, ep, target) ==
    IF ep # NoEp /\ target = get_board_coords(ep)
    THEN IF active_player = "w" THEN SetSquare(bs, target[1] + 1, target[2], "*")
         ELSE IF active_player = "b" THEN SetSquare(bs, target[1] - 1, target[2], "*")
         ELSE bs
    ELSE bs

\* Lines 1004-1024: the four castling blocks, in the order of the code.
CastleRook(bs, piece, source, target) ==
    LET one == IF piece = "K" /\ source[2] - target[2] = 2
               THEN SetSquare(SetSquare(SetSquare(bs, target[1], target[2], piece),
                                        7, 0, "*"),
                              target[1], target[2] + 1, "R")
               ELSE bs
        two == IF piece = "K" /\ source[2] - target[2] = -2
               THEN SetSquare(SetSquare(SetSquare(one, target[1], target[2], piece),
                                        7, 7, "*"),
                              target[1], target[2] - 1, "R")
               ELSE one
        three == IF piece = "k" /\ source[2] - target[2] = 2
                 THEN SetSquare(SetSquare(SetSquare(two, target[1], target[2], piece),
                                          0, 0, "*"),
                                target[1], target[2] + 1, "R")
                 ELSE two
        four == IF piece = "K" /\ source[2] - target[2] = -2
                THEN SetSquare(SetSquare(SetSquare(three, target[1], target[2], piece),
                                         7, 7, "*"),
                               target[1], target[2] - 1, "R")
                ELSE three
    IN  four

move_piece(b, source, target) ==
    LET piece == get_piece(b, source)
        ca == CastlingAfter(b.castling_availability, piece, source)
        ep == EnPassantAfter(b.en_passant_square, piece, source, target)
        placed == PlaceAfter(b, piece, source, target)
        taken == EnPassantRemoval(placed, b.active_player, ep, target)
    IN  [b EXCEPT !.castling_availability = ca,
                  !.en_passant_square = ep,
                  !.halfmove_counter = HalfmoveAfter(b, piece, target),
                  !.board_state = CastleRook(taken, piece, source, target)]

\* The cases in which move_piece aborts: the `_ => panic!` arm of the
\* en-passant removal (line 999) or a set_piece outside the board.
MovePanics(b, source, target) ==
    LET piece == get_piece(b, source)
        ep == EnPassantAfter(b.en_passant_square, piece, source, target)
    IN  \/ /\ ep # NoEp
           /\ target = get_board_coords(ep)
           /\ \/ b.active_player \notin {"w", "b"}
              \/ b.active_player = "w" /\ ~OnBoard(target[1] + 1, target[2])
              \/ b.active_player = "b" /\ ~OnBoard(target[1] - 1, target[2])
        \/ /\ piece \in {"K", "k"}
           /\ \/ source[2] - target[2] = 2 /\ ~OnBoard(target[1], target[2] + 1)
              \/ piece = "K" /\ source[2] - target[2] = -2
                             /\ ~OnBoard(target[1], target[2] - 1)

(***************************************************************************)
(* Check detection and the legality filter (lines 138-158, 203-294).       *)
(* The HashMap is the set of its <<key, value>> entries.                   *)
(***************************************************************************)
Coords == (0..7) \X (0..7)

\* The squares the double loop of lines 209-229 generates moves for.
PiecesOf(b, color) ==
    {c \in Coords : \/ color = "w" /\ is_ascii_uppercase(get_piece(b, c))
                    \/ color = "b" /\ is_ascii_lowercase(get_piece(b, c))}

\* Lines 208-229: `output` before any filtering.
Generated(b, color) ==
    LET all == {<<c, get_piece_movements(b, c, get_piece(b, c), color)>> :
                    c \in PiecesOf(b, color)}
    IN  {e \in all : e[2] # <<>>}

HasKey(output, key) == \E e \in output : e[1] = key
Lookup(output, key) == (CHOOSE e \in output : e[1] = key)[2]

SeqContains(seq, m) == \E i \in 1..Len(seq) : seq[i] = m

\* `if v.contains(m) { v.remove(v.iter().position(|x| *x == m)) }`
RemoveFirst(seq, m) ==
    IF SeqContains(seq, m)
    THEN LET index == CHOOSE i \in 1..Len(seq) :
                          seq[i] = m /\ \A j \in 1..(i - 1) : seq[j] # m
         IN  SubSeq(seq, 1, index - 1) \o SubSeq(seq, index + 1, Len(seq))
    ELSE seq

\* A variant of the castling removal that removes nothing.
RemoveCastlingNone(output, b, color) == output

\* Lines 239-262: the castling destinations are taken out of the entry of
\* the king's home square.
RemoveCastling(output, b, color) ==
    LET row  == IF color = "w" THEN 7 ELSE 0
        king == IF color = "w" THEN "K" ELSE "k"
    IN  IF color \in {"w", "b"} /\ At(b.board_state, row, 4) = king
        THEN {IF e[1] = <<row, 4>>
              THEN <<e[1], RemoveFirst(RemoveFirst(e[2], <<row, 6>>), <<row, 2>>)>>
              ELSE e : e \in output}
        ELSE output

Enemy(player) == IF player = "w" THEN "b" ELSE IF player = "b" THEN "w" ELSE "n"

RECURSIVE get_available_moves_internal(_, _, _)
RECURSIVE player_is_in_check(_, _)

player_is_in_check(b, player) ==
    \E e \in get_available_moves_internal(b, Enemy(player), TRUE) :
        \E i \in 1..Len(e[2]) : eq_ignore_ascii_case(get_piece(b, e[2][i]), "k")

\* The closure of lines 233-237 and the test of lines 277-279: the move is
\* made on a clone of the board and the mover must not be in check there.
LeavesInCheck(b, key, legal_move, color) ==
    player_is_in_check(move_piece(b, key, legal_move), color)

\* The <<key, move>> pairs of `output` for which that test fails.  Both
\* passes over the map (lines 232-238 and 273-285) apply it to the same
\* board, so it is computed once and used by both.
SafeMoves(b, output, color) ==
    {km \in UNION {{<<e[1], e[2][i]>> : i \in 1..Len(e[2])} : e \in output} :
        ~LeavesInCheck(b, km[1], km[2], color)}

\* `value.retain(...)` on every entry of the map.
Retain(output, safe) ==
    {<<e[1], SelectSeq(e[2], LAMBDA m : <<e[1], m>> \in safe)>> : e \in output}

\* Lines 230-263: when the colour is in check, the moves that do not end
\* the check and the castling moves are removed.
FirstPass(b, color, output, safe, in_check) ==
    IF in_check THEN RemoveCastling(Retain(output, safe), b, color) ELSE output

\* A variant of the second pass that forgets the retain of lines 273-285;
\* with it a colour that is not in check keeps its pinned pieces' moves.
SecondPassUnfiltered(first, safe, force_no_check) ==
    {e \in first : e[2] # <<>>}

\* Lines 267-290: the keys with no move left are removed; of the others the
\* moves that leave the colour in check are removed (their keys stay).
SecondPass(first, safe, force_no_check) ==
    IF force_no_check THEN {e \in first : e[2] # <<>>}
    ELSE Retain({e \in first : e[2] # <<>>}, safe)

Filtered(b, color, output, force_no_check) ==
    IF force_no_check THEN SecondPass(output, {}, TRUE)
    ELSE LET safe == SafeMoves(b, output, color)
         IN  SecondPass(FirstPass(b, color, output, safe,
                                  player_is_in_check(b, color)),
                        safe, FALSE)

get_available_moves_internal(b, color, force_no_check) ==
    Filtered(b, color, Generated(b, color), force_no_check)

\* get_available_moves (lines 186-200): the same map in algebraic notation.
get_available_moves(b, color, force_no_check) ==
    {<<get_algebraic_notation(e[1]),
       [i \in 1..Len(e[2]) |-> get_algebraic_notation(e[2][i])]>> :
        e \in get_available_moves_internal(b, color, force_no_check)}

\* A variant of check_for_checks with the two flags in the other order.
check_for_checks_swapped(b) ==
    <<player_is_in_check(b, "b"), player_is_in_check(b, "w")>>

check_for_checks(b) == <<player_is_in_check(b, "w"), player_is_in_check(b, "b")>>

\* Some piece of `color` makes get_piece_movements abort.
GenerationPanics(b, color) ==
    \E c \in PiecesOf(b, color) : PiecePanics(b, c, get_piece(b, c), color)

\* `output[&vec![7,4]]` (lines 242, 246) and `output[&vec![0,4]]` (lines
\* 253, 257) abort when the king's home square is no key of the map.
IndexPanics(b, color) ==
    LET row  == IF color = "w" THEN 7 ELSE 0
        king == IF color = "w" THEN "K" ELSE "k"
    IN  /\ color \in {"w", "b"}
        /\ At(b.board_state, row, 4) = king
        /\ ~HasKey(Generated(b, color), <<row, 4>>)

\* get_available_moves_internal(b, color, false) aborts.
MovesPanic(b, color) ==
    \/ GenerationPanics(b, color)
    \/ GenerationPanics(b, Enemy(color))
    \/ (player_is_in_check(b, color) /\ IndexPanics(b, color))
    \/ \E e \in Generated(b, color) : \E i \in 1..Len(e[2]) :
          \/ MovePanics(b, e[1], e[2][i])
          \/ GenerationPanics(move_piece(b, e[1], e[2][i]), Enemy(color))

check_for_checks_panics(b) == GenerationPanics(b, "w") \/ GenerationPanics(b, "b")

(***************************************************************************)
(* Position text: parse_fen (lines 25-66) and generate_fen (lines 68-103). *)
(***************************************************************************)
\* str::split(sep): the pieces between the separators, empty pieces kept.
RECURSIVE SplitFrom(_, _, _, _)
SplitFrom(str, sep, i, cur) ==
    IF i > Len(str) THEN <<cur>>
    ELSE IF str[i] = sep THEN <<cur>> \o SplitFrom(str, sep, i + 1, <<>>)
    ELSE SplitFrom(str, sep, i + 1, Append(cur, str[i]))

split(str, sep) == SplitFrom(str, sep, 1, <<>>)

\* str::parse::<i32>() / parse::<u64>() of a run of decimal digits.
RECURSIVE ParseFrom(_, _, _)
ParseFrom(str, i, acc) ==
    IF i > Len(str) THEN acc
    ELSE ParseFrom(str, i + 1, 10 * acc + to_digit(str[i]))

parse_int(str) == ParseFrom(str, 1, 0)

\* The `{}` formatting of a non-negative integer.
RECURSIVE format_int(_)
format_int(n) ==
    IF n < 10 THEN <<Digits[n + 1]>>
    ELSE format_int(n \div 10) \o <<Digits[(n % 10) + 1]>>

Stars(n) == [i \in 1..n |-> "*"]

\* Lines 33-46: one row of the board part, digits expanded to '*'.
RECURSIVE ParseRow(_, _)
ParseRow(single_row, i) ==
    IF i > Len(single_row) THEN <<>>
    ELSE (IF is_numeric(single_row[i]) THEN Stars(to_digit(single_row[i]))
          ELSE <<single_row[i]>>)
         \o ParseRow(single_row, i + 1)

parse_fen(text) ==
    LET fen_vec == split(text, " ")
        board_state_vec == split(fen_vec[1], "/")
    IN  [board_state |-> [r \in 1..Len(board_state_vec) |->
                              ParseRow(board_state_vec[r], 1)],
         active_player |-> fen_vec[2][1],
         castling_availability |-> fen_vec[3],
         en_passant_square |-> fen_vec[4],
         halfmove_counter |-> parse_int(fen_vec[5]),
         turn_counter |-> parse_int(fen_vec[6]),
         promotion_selection |-> "q"]

\* Lines 73-86: one row of the board, runs of '*' written as their length.
RECURSIVE FenRow(_, _, _, _)
FenRow(row, i, fen_row, empty_squares) ==
    IF i > Len(row)
    THEN IF empty_squares > 0 THEN fen_row \o format_int(empty_squares)
         ELSE fen_row
    ELSE IF row[i] = "*" THEN FenRow(row, i + 1, fen_row, empty_squares + 1)
    ELSE IF empty_squares > 0
    THEN FenRow(row, i + 1, fen_row \o format_int(empty_squares) \o <<row[i]>>, 0)
    ELSE FenRow(row, i + 1, fen_row \o <<row[i]>>, 0)

\* Lines 87-92: the rows joined by '/'.
RECURSIVE FenRows(_, _, _)
FenRows(bs, r, text) ==
    IF r > Len(bs) THEN text
    ELSE FenRows(bs, r + 1,
                 IF text = <<>> THEN FenRow(bs[r], 1, <<>>, 0)
                 ELSE text \o <<"/">> \o FenRow(bs[r], 1, <<>>, 0))

\* A variant of generate_fen that writes the turn counter before the
\* halfmove counter.
generate_fen_turn_first(b) ==
    FenRows(b.board_state, 1, <<>>) \o <<" ">>
      \o <<b.active_player>> \o <<" ">>
      \o b.castling_availability \o <<" ">>
      \o b.en_passant_square \o <<" ">>
      \o format_int(b.turn_counter) \o <<" ">>
      \o format_int(b.halfmove_counter)

generate_fen(b) ==
    FenRows(b.board_state, 1, <<>>) \o <<" ">>
      \o <<b.active_player>> \o <<" ">>
      \o b.castling_availability \o <<" ">>
      \o b.en_passant_square \o <<" ">>
      \o format_int(b.halfmove_counter) \o <<" ">>
      \o format_int(b.turn_counter)

(***************************************************************************)
(* Game (lines 313-441).                                                   *)
(***************************************************************************)
\* `.keys().len() == 0` (lines 419, 428)
NoKeys(output) == output = {}

\* A variant of update_game_status that reports the two checkmates under
\* each other's code.
update_game_status_swapped(b, chk) ==
    LET draw == IF b.halfmove_counter >= 100 THEN 4 ELSE 0
    IN  IF MovesPanic(b, "w") THEN [aborted |-> TRUE, status |-> draw]
        ELSE IF NoKeys(get_available_moves_internal(b, "w", FALSE))
        THEN [aborted |-> FALSE, status |-> IF chk[1] THEN 1 ELSE 3]
        ELSE IF MovesPanic(b, "b") THEN [aborted |-> TRUE, status |-> draw]
        ELSE IF NoKeys(get_available_moves_internal(b, "b", FALSE))
        THEN [aborted |-> FALSE, status |-> IF chk[2] THEN 2 ELSE 3]
        ELSE [aborted |-> FALSE, status |-> draw]

\* Game::update_game_status (lines 413-439): the status for a board and the
\* cached check flags; `aborted` when one of the two legal-move computations
\* aborts, `status` being then what game_status was left at.
update_game_status(b, chk) ==
    LET draw == IF b.halfmove_counter >= 100 THEN 4 ELSE 0
    IN  IF MovesPanic(b, "w") THEN [aborted |-> TRUE, status |-> draw]
        ELSE IF NoKeys(get_available_moves_internal(b, "w", FALSE))
        THEN [aborted |-> FALSE, status |-> IF chk[1] THEN 2 ELSE 3]
        ELSE IF MovesPanic(b, "b") THEN [aborted |-> TRUE, status |-> draw]
        ELSE IF NoKeys(get_available_moves_internal(b, "b", FALSE))
        THEN [aborted |-> FALSE, status |-> IF chk[2] THEN 1 ELSE 3]
        ELSE [aborted |-> FALSE, status |-> draw]

\* The Game once the status of line 340 or line 406 is known; `ret` tells
\* whether the evaluation completed.
Evaluated(text, b, chk, st) ==
    [fen |-> text, board |-> b, checks |-> chk, game_status |-> st.status,
     ret |-> IF st.aborted THEN "panic" ELSE "true"]

\* Lines 338-340 and 404-406: the check flags, then the status.
Checked(text, b) ==
    IF check_for_checks_panics(b)
    THEN [fen |-> text, board |-> b, checks |-> <<>>, game_status |-> 0,
          ret |-> "panic"]
    ELSE Evaluated(text, b, check_for_checks(b),
                   update_game_status(b, check_for_checks(b)))

\* Game::new_from_fen (lines 336-342).
new_from_fen(text) == Checked(text, parse_fen(text))

(***************************************************************************)
(* The environment: a run starts from one of a few position texts and the  *)
(* caller draws the arguments of its calls from the script of that text.   *)
(***************************************************************************)
FenStart ==
    <<"r", "n", "b", "q", "k", "b", "n", "r", "/", "p", "p", "p", "p", "p", "p", "p", "p", "/", "8", "/", "8", "/", "8", "/", "8", "/", "P", "P", "P", "P", "P", "P", "P", "P", "/", "R", "N", "B", "Q", "K", "B", "N", "R", " ", "w", " ", "K", "Q", "k", "q", " ", "-", " ", "0", " ", "1">>

CallsStart ==
    {<<<<"f", "2">>, <<"f", "3">>>>,
     <<<<"e", "7">>, <<"e", "5">>>>,
     <<<<"g", "2">>, <<"g", "4">>>>,
     <<<<"d", "8">>, <<"h", "4">>>>,
     <<<<"e", "2">>, <<"e", "5">>>>,
     <<<<"g", "2">>, <<"g", "3">>>>}

FenCastling ==
    <<"r", "3", "k", "2", "r", "/", "p", "6", "p", "/", "8", "/", "8", "/", "8", "/", "8", "/", "P", "6", "P", "/", "R", "3", "K", "2", "R", " ", "w", " ", "K", "Q", "k", "q", " ", "-", " ", "0", " ", "1">>

CallsCastling ==
    {<<<<"e", "1">>, <<"c", "1">>>>,
     <<<<"e", "1">>, <<"g", "1">>>>,
     <<<<"e", "8">>, <<"c", "8">>>>,
     <<<<"e", "8">>, <<"g", "8">>>>,
     <<<<"a", "1">>, <<"b", "1">>>>,
     <<<<"h", "1">>, <<"g", "1">>>>,
     <<<<"a", "8">>, <<"b", "8">>>>,
     <<<<"h", "8">>, <<"g", "8">>>>,
     <<<<"e", "1">>, <<"d", "1">>>>,
     <<<<"e", "8">>, <<"d", "8">>>>,
     <<<<"e", "1">>, <<"e", "3">>>>}

FenMated ==
    <<"6", "k", "1", "/", "5", "p", "1", "p", "/", "8", "/", "6", "p", "1", "/", "2", "P", "1", "p", "1", "P", "1", "/", "4", "P", "2", "P", "/", "1", "r", "6", "/", "q", "1", "K", "5", " ", "w", " ", "-", " ", "-", " ", "8", " ", "4", "7">>

CallsMated ==
    {<<<<"c", "1">>, <<"d", "1">>>>,
     <<<<"c", "1">>, <<"c", "2">>>>,
     <<<<"c", "1">>, <<"b", "1">>>>,
     <<<<"h", "3">>, <<"h", "4">>>>}

FenFifty ==
    <<"6", "k", "1", "/", "5", "p", "1", "p", "/", "8", "/", "6", "p", "1", "/", "2", "P", "1", "p", "1", "P", "1", "/", "4", "P", "2", "P", "/", "1", "r", "6", "/", "2", "K", "5", " ", "w", " ", "-", " ", "-", " ", "1", "0", "0", " ", "4", "7">>

CallsFifty ==
    {<<<<"c", "1">>, <<"b", "2">>>>,
     <<<<"c", "1">>, <<"d", "1">>>>,
     <<<<"h", "7">>, <<"h", "6">>>>,
     <<<<"g", "8">>, <<"g", "7">>>>,
     <<<<"c", "4">>, <<"c", "5">>>>}

FenRookMate ==
    <<"k", "7", "/", "8", "/", "1", "K", "6", "/", "8", "/", "8", "/", "8", "/", "8", "/", "7", "R", " ", "w", " ", "-", " ", "-", " ", "9", "8", " ", "8", "0">>

CallsRookMate ==
    {<<<<"h", "1">>, <<"h", "8">>>>,
     <<<<"h", "1">>, <<"g", "1">>>>,
     <<<<"g", "1">>, <<"g", "8">>>>,
     <<<<"a", "8">>, <<"b", "8">>>>,
     <<<<"b", "8">>, <<"a", "8">>>>,
     <<<<"b", "8">>, <<"c", "8">>>>,
     <<<<"b", "6">>, <<"c", "6">>>>,
     <<<<"g", "1">>, <<"h", "1">>>>,
     <<<<"a", "8">>, <<"a", "7">>>>}

FenStalemate ==
    <<"k", "7", "/", "8", "/", "8", "/", "2", "Q", "5", "/", "8", "/", "8", "/", "8", "/", "K", "7", " ", "w", " ", "-", " ", "-", " ", "0", " ", "1">>

CallsStalemate ==
    {<<<<"c", "5">>, <<"b", "6">>>>,
     <<<<"c", "5">>, <<"c", "7">>>>,
     <<<<"c", "5">>, <<"c", "8">>>>,
     <<<<"a", "8">>, <<"b", "8">>>>,
     <<<<"a", "8">>, <<"a", "7">>>>,
     <<<<"a", "8">>, <<"b", "7">>>>,
     <<<<"b", "8">>, <<"a", "8">>>>,
     <<<<"a", "1">>, <<"b", "1">>>>,
     <<<<"c", "7">>, <<"c", "8">>>>}

FenPinned ==
    <<"4", "r", "1", "k", "1", "/", "8", "/", "8", "/", "8", "/", "8", "/", "8", "/", "4", "R", "3", "/", "4", "K", "3", " ", "w", " ", "-", " ", "-", " ", "0", " ", "1">>

CallsPinned ==
    {<<<<"e", "2">>, <<"d", "2">>>>,
     <<<<"e", "2">>, <<"e", "5">>>>,
     <<<<"e", "2">>, <<"e", "8">>>>,
     <<<<"e", "1">>, <<"d", "1">>>>,
     <<<<"e", "1">>, <<"f", "2">>>>,
     <<<<"e", "8">>, <<"e", "2">>>>,
     <<<<"e", "8">>, <<"e", "5">>>>,
     <<<<"g", "8">>, <<"f", "8">>>>,
     <<<<"g", "8">>, <<"f", "7">>>>,
     <<<<"e", "1">>, <<"e", "2">>>>,
     <<<<"e", "5">>, <<"e", "1">>>>,
     <<<<"d", "1">>, <<"d", "2">>>>}

FenPromotion ==
    <<"8", "/", "P", "6", "k", "/", "8", "/", "8", "/", "8", "/", "8", "/", "7", "p", "/", "K", "7", " ", "w", " ", "-", " ", "-", " ", "0", " ", "1">>

CallsPromotion ==
    {<<<<"a", "7">>, <<"a", "8">>>>,
     <<<<"h", "2">>, <<"h", "1">>>>,
     <<<<"a", "1">>, <<"b", "1">>>>,
     <<<<"h", "7">>, <<"g", "7">>>>,
     <<<<"a", "7">>, <<"b", "8">>>>}

FenFiftyMated ==
    <<"k", "6", "R", "/", "8", "/", "1", "K", "6", "/", "8", "/", "8", "/", "8", "/", "8", "/", "8", " ", "b", " ", "-", " ", "-", " ", "1", "0", "0", " ", "8", "0">>

CallsFiftyMated ==
    {<<<<"a", "8">>, <<"a", "7">>>>,
     <<<<"a", "8">>, <<"b", "8">>>>,
     <<<<"h", "8">>, <<"h", "1">>>>}

FenEnPassant ==
    <<"4", "k", "3", "/", "6", "p", "1", "/", "8", "/", "p", "P", "1", "p", "P", "3", "/", "7", "P", "/", "8", "/", "8", "/", "4", "K", "3", " ", "w", " ", "-", " ", "d", "6", " ", "0", " ", "6">>

CallsEnPassant ==
    {<<<<"e", "5">>, <<"d", "6">>>>,
     <<<<"e", "5">>, <<"e", "6">>>>,
     <<<<"h", "4">>, <<"h", "5">>>>,
     <<<<"g", "7">>, <<"g", "5">>>>,
     <<<<"h", "5">>, <<"g", "6">>>>,
     <<<<"h", "4">>, <<"g", "5">>>>,
     <<<<"d", "5">>, <<"d", "4">>>>,
     <<<<"g", "7">>, <<"g", "6">>>>}

FenEnPassantA ==
    <<"4", "k", "3", "/", "p", "7", "/", "8", "/", "1", "P", "6", "/", "1", "p", "6", "/", "8", "/", "P", "1", "P", "5", "/", "4", "K", "3", " ", "w", " ", "-", " ", "-", " ", "0", " ", "1">>

CallsEnPassantA ==
    {<<<<"a", "2">>, <<"a", "4">>>>,
     <<<<"b", "4">>, <<"a", "3">>>>,
     <<<<"a", "7">>, <<"a", "5">>>>,
     <<<<"b", "5">>, <<"a", "6">>>>,
     <<<<"c", "2">>, <<"c", "4">>>>,
     <<<<"b", "4">>, <<"c", "3">>>>,
     <<<<"b", "5">>, <<"b", "6">>>>}

FenCastleInCheck ==
    <<"r", "3", "k", "2", "r", "/", "8", "/", "8", "/", "8", "/", "8", "/", "4", "R", "3", "/", "4", "r", "3", "/", "R", "3", "K", "2", "R", " ", "w", " ", "K", "Q", "k", "q", " ", "-", " ", "0", " ", "1">>

CallsCastleInCheck ==
    {<<<<"e", "3">>, <<"e", "2">>>>,
     <<<<"e", "1">>, <<"e", "2">>>>,
     <<<<"e", "1">>, <<"g", "1">>>>,
     <<<<"e", "1">>, <<"c", "1">>>>,
     <<<<"e", "8">>, <<"g", "8">>>>,
     <<<<"e", "8">>, <<"c", "8">>>>,
     <<<<"e", "8">>, <<"d", "8">>>>,
     <<<<"e", "8">>, <<"f", "7">>>>,
     <<<<"e", "1">>, <<"d", "1">>>>}

\* The standard game after 1. a3 Nc6 2. a4 Nb4 3. a5: the knight can give
\* check from d3 to a king that has no square to step to.
\* "r1bqkbnr/pppppppp/8/P7/1n6/8/1PPPPPPP/RNBQKBNR b KQkq - 0 3"
FenSmothered ==
    <<"r", "1", "b", "q", "k", "b", "n", "r", "/", "p", "p", "p", "p", "p",
     "p", "p", "p", "/", "8", "/", "P", "7", "/", "1", "n", "6", "/", "8",
     "/", "1", "P", "P", "P", "P", "P", "P", "P", "/", "R", "N", "B", "Q", "K", "B", "N", "R", " ", "b", " ", "K", "Q", "k", "q", " ", "-", " ", "0", " ", "3">>

CallsSmothered ==
    {<<<<"b", "4">>, <<"d", "3">>>>,
     <<<<"b", "4">>, <<"d", "5">>>>}

\* The standard game after 1. e4: Black answers with a one-square pawn
\* advance, then White tries d2-e3.
\* "rnbqkbnr/pppppppp/8/8/4P3/8/PPPP1PPP/RNBQKBNR b KQkq e3 0 1"
FenKingPawn ==
    <<"r", "n", "b", "q", "k", "b", "n", "r", "/", "p", "p", "p", "p", "p",
     "p", "p", "p", "/", "8", "/", "8", "/", "4", "P", "3", "/", "8", "/",
     "P", "P", "P", "P", "1", "P", "P", "P", "/", "R", "N", "B", "Q", "K",
     "B", "N", "R", " ", "b", " ", "K", "Q", "k", "q", " ", "e", "3", " ",
     "0", " ", "1">>

CallsKingPawn ==
    {<<<<"a", "7">>, <<"a", "6">>>>,
     <<<<"d", "2">>, <<"e", "3">>>>}

\* White's king's rook has gone round to a5; the queen's rook has not moved.
\* "4k3/8/8/R7/8/8/8/R3K3 w Q - 0 1"
FenRookLift ==
    <<"4", "k", "3", "/", "8", "/", "8", "/", "R", "7", "/", "8", "/", "8",
     "/", "8", "/", "R", "3", "K", "3", " ", "w", " ", "Q", " ", "-", " ",
     "0", " ", "1">>

CallsRookLift ==
    {<<<<"a", "5">>, <<"a", "6">>>>,
     <<<<"a", "5">>, <<"b", "5">>>>}

\* Black's king stands beside White's unmoved queen's rook and can take it;
\* White's king has not moved.
\* "8/8/8/8/8/8/1k6/R3K3 b Q - 0 40"
FenCornerKing ==
    <<"8", "/", "8", "/", "8", "/", "8", "/", "8", "/", "8", "/", "1", "k",
     "6", "/", "R", "3", "K", "3", " ", "b", " ", "Q", " ", "-", " ", "0",
     " ", "4", "0">>

CallsCornerKing ==
    {<<<<"b", "2">>, <<"a", "1">>>>,
     <<<<"e", "1">>, <<"c", "1">>>>,
     <<<<"e", "1">>, <<"d", "1">>>>}

\* A black pawn on b3 attacks a2 and c2; White's king stands on a1.
\* "7k/8/8/8/8/1p6/8/K7 w - - 0 1"
FenPawnGuard ==
    <<"7", "k", "/", "8", "/", "8", "/", "8", "/", "8", "/", "1", "p", "6",
     "/", "8", "/", "K", "7", " ", "w", " ", "-", " ", "-", " ", "0", " ",
     "1">>

CallsPawnGuard ==
    {<<<<"a", "1">>, <<"a", "2">>>>,
     <<<<"a", "1">>, <<"b", "1">>>>}

Scenarios ==
    <<[text |-> FenStart, calls |-> CallsStart, promotions |-> {}],
      [text |-> FenCastling, calls |-> CallsCastling, promotions |-> {}],
      [text |-> FenMated, calls |-> CallsMated, promotions |-> {}],
      [text |-> FenFifty, calls |-> CallsFifty, promotions |-> {}],
      [text |-> FenRookMate, calls |-> CallsRookMate, promotions |-> {}],
      [text |-> FenStalemate, calls |-> CallsStalemate, promotions |-> {}],
      [text |-> FenPinned, calls |-> CallsPinned, promotions |-> {}],
      [text |-> FenPromotion, calls |-> CallsPromotion,
       promotions |-> {"n", "R", "p"}],
      [text |-> FenFiftyMated, calls |-> CallsFiftyMated, promotions |-> {}],
      [text |-> FenEnPassant, calls |-> CallsEnPassant, promotions |-> {}],
      [text |-> FenEnPassantA, calls |-> CallsEnPassantA, promotions |-> {}],
      [text |-> FenCastleInCheck, calls |-> CallsCastleInCheck, promotions |-> {}],
      [text |-> FenSmothered, calls |-> CallsSmothered, promotions |-> {}],
      [text |-> FenKingPawn, calls |-> CallsKingPawn, promotions |-> {}],
      [text |-> FenRookLift, calls |-> CallsRookLift, promotions |-> {}],
      [text |-> FenCornerKing, calls |-> CallsCornerKing, promotions |-> {}],
      [text |-> FenPawnGuard, calls |-> CallsPawnGuard, promotions |-> {}]>>

\* The number of accepted moves a run is followed for.
MaxPly == 4

\* The Game the variables hold.
Self == [fen |-> fen, board |-> board, checks |-> checks,
         game_status |-> game_status]

\* The Games the scenarios construct.
Constructed == {<<i, new_from_fen(Scenarios[i].text)>> : i \in 1..Len(Scenarios)}

Init ==
    \E c \in Constructed :
        /\ c[2].ret = "true"
        /\ scenario = c[1]
        /\ fen = c[2].fen
        /\ board = c[2].board
        /\ checks = c[2].checks
        /\ game_status = c[2].game_status
        /\ op = "new"
        /\ ret = "none"
        /\ history = <<>>
        /\ ply = 0
        /\ arg = "none"

\* A variant of the turn flip that advances the turn counter on every move.
FlipPlayerCounting(b) ==
    IF b.active_player = "w"
    THEN [b EXCEPT !.active_player = "b", !.turn_counter = @ + 1]
    ELSE IF b.active_player = "b"
    THEN [b EXCEPT !.active_player = "w", !.turn_counter = @ + 1]
    ELSE b

\* Lines 397-402: the side to move is flipped, the turn counter advanced
\* after Black's move.
FlipPlayer(b) ==
    IF b.active_player = "w" THEN [b EXCEPT !.active_player = "b"]
    ELSE IF b.active_player = "b"
    THEN [b EXCEPT !.turn_counter = @ + 1, !.active_player = "w"]
    ELSE b

\* Lines 387-388: the move is one the legality filter returned.
IsAvailable(available_moves, source_coords, target_coords) ==
    /\ HasKey(available_moves, source_coords)
    /\ SeqContains(Lookup(available_moves, source_coords), target_coords)

\* A variant of the last lines of make_move that leaves the fen field as it
\* was before the move.
FinishStale(g, done) ==
    IF done.ret = "true" THEN [done EXCEPT !.fen = g.fen]
    ELSE IF done.checks = <<>> THEN [done EXCEPT !.checks = g.checks,
                                                 !.game_status = g.game_status]
    ELSE done

\* Lines 404-410 on the board `b` the move left: the Game and the value
\* returned.  When the call aborts, the fields not yet written keep the
\* values of `g`.
Finish(g, done) ==
    IF done.ret = "true" THEN [done EXCEPT !.fen = generate_fen(done.board)]
    ELSE IF done.checks = <<>> THEN [done EXCEPT !.checks = g.checks,
                                                 !.game_status = g.game_status]
    ELSE done

\* What make_move does once the move is found available (lines 391-410).
Execute(g, source, target) ==
    Finish(g, Checked(g.fen, FlipPlayer(move_piece(g.board,
                                                   get_board_coords(source),
                                                   get_board_coords(target)))))

\* A variant of the rejection that hands the turn over all the same.
RejectFlipping(g) == [g EXCEPT !.board = FlipPlayer(g.board)] @@ [ret |-> "false"]

\* What make_move does when the move is not available (lines 393-395).
Reject(g) == g @@ [ret |-> "false"]

\* Game::make_move (lines 381-411), given what the legal-move computation
\* of lines 385-386 did: whether it aborted, and the map it returned.
make_move(g, aborts, available_moves, source, target) ==
    IF aborts THEN g @@ [ret |-> "panic"]
    ELSE IF IsAvailable(available_moves, get_board_coords(source),
                        get_board_coords(target))
    THEN Execute(g, source, target)
    ELSE Reject(g)

\* The outcomes of the make_move calls of a script on one Game.
Outcomes(g, calls) ==
    LET aborts == MovesPanic(g.board, g.board.active_player)
        available_moves ==
            IF aborts THEN {}
            ELSE get_available_moves_internal(g.board, g.board.active_player, FALSE)
    IN  {[call |-> call,
          out |-> make_move(g, aborts, available_moves, call[1], call[2])] :
            call \in calls}

MakeMove ==
    /\ ret # "panic"
    /\ ply < MaxPly
    /\ \E o \in Outcomes(Self, Scenarios[scenario].calls) :
          /\ fen' = o.out.fen
          /\ board' = o.out.board
          /\ checks' = o.out.checks
          /\ game_status' = o.out.game_status
          /\ ret' = o.out.ret
          /\ history' = IF o.out.board # board THEN Append(history, o.call)
                         ELSE history
          /\ ply' = IF o.out.board # board THEN ply + 1 ELSE ply
    /\ op' = "make_move"
    /\ UNCHANGED <<scenario, arg>>

\* A variant of set_promotion that stores the character before testing it.
set_promotion_storing(b, piece) ==
    [board |-> [b EXCEPT !.promotion_selection = piece],
     ret |-> IF to_ascii_lowercase(piece) \in {"b", "n", "r", "q"}
             THEN "true" ELSE "false"]

\* Board::set_promotion (lines 1048-1054): the board it leaves and what it
\* returns.
set_promotion(b, piece) ==
    IF to_ascii_lowercase(piece) \in {"b", "n", "r", "q"}
    THEN [board |-> [b EXCEPT !.promotion_selection = piece], ret |-> "true"]
    ELSE [board |-> b, ret |-> "false"]

SetPromotion ==
    /\ ret # "panic"
    /\ \E piece \in Scenarios[scenario].promotions :
          /\ board' = set_promotion(board, piece).board
          /\ ret' = set_promotion(board, piece).ret
          /\ arg' = piece
    /\ op' = "set_promotion"
    /\ UNCHANGED <<fen, checks, game_status, scenario, history, ply>>

Next == MakeMove \/ SetPromotion

Spec == Init /\ [][Next]_vars

(***************************************************************************)
(* Properties.                                                             *)
(***************************************************************************)
\* The map get_available_moves_internal(false) returns for a colour.
LegalMoves(b, color) == get_available_moves_internal(b, color, FALSE)

\* (source, target) is a move of the map.
InLegalSet(b, color, source, target) ==
    \E e \in LegalMoves(b, color) : e[1] = source /\ SeqContains(e[2], target)

\* No list of the map holds a move.
ZeroLegalMoves(b, color) == \A e \in LegalMoves(b, color) : e[2] = <<>>

\* Some piece of the other colour has a generated move onto the square of
\* the colour's king.
KingCapturable(b, color) ==
    LET king == IF color = "w" THEN "K" ELSE "k"
    IN  \E c \in PiecesOf(b, Enemy(color)) :
            \E k \in Coords :
                /\ get_piece(b, k) = king
                /\ SeqContains(get_piece_movements(b, c, get_piece(b, c), Enemy(color)), k)

\* The board make_move leaves when it accepts (source, target).
AfterMove(b, source, target) == FlipPlayer(move_piece(b, source, target))

Last(seq) == seq[Len(seq)]

\* C1: in every position the game reaches, no move of the legal-move map of
\* the side to move leaves that side's own king capturable: on the board
\* the move produces, no piece of the opponent has a generated move onto
\* the mover's king.
C1_LegalMovesKeepKingSafe ==
    ret # "panic" =>
        \A e \in LegalMoves(board, board.active_player) :
            \A i \in 1..Len(e[2]) :
                ~KingCapturable(AfterMove(board, e[1], e[2][i]), board.active_player)

\* A position reached by a move where the filter has work to do: a generated
\* move of the side to move exposes its king, and the side has a legal move.
C1_Witness ==
    /\ ret # "panic"
    /\ \E e \in Generated(board, board.active_player) :
          \E i \in 1..Len(e[2]) :
              KingCapturable(AfterMove(board, e[1], e[2][i]), board.active_player)
    /\ ~ZeroLegalMoves(board, board.active_player)
    /\ ply > 0

\* C2: a make_move call whose (source, target) is not in the legal-move map
\* of the side to move returns false and leaves the fen, the board (grid,
\* side to move, castling rights, en-passant square, clocks, promotion
\* choice), the check flags and the status as they were; a call returns
\* true only for a pair of that map.
C2_RejectedMoveChangesNothing ==
    [][op' = "make_move" =>
          /\ ret' = "false" => game' = game /\ history' = history
          /\ ret' = "true" =>
                /\ history' = Append(history, Last(history'))
                /\ InLegalSet(board, board.active_player,
                              get_board_coords(Last(history')[1]),
                              get_board_coords(Last(history')[2]))]_vars

\* A call has been rejected after a move had been played.
C2_Witness == op = "make_move" /\ ret = "false" /\ ply > 0

\* C3: with the halfmove clock below 100, a position in which White has no
\* legal move and White's king is attacked has status 2; when White does
\* have a legal move, a position in which Black has no legal move and
\* Black's king is attacked has status 1.
C3_CheckmateStatus ==
    (ret # "panic" /\ board.halfmove_counter < 100) =>
        /\ (ZeroLegalMoves(board, "w") /\ KingCapturable(board, "w"))
              => game_status = 2
        /\ (/\ ~ZeroLegalMoves(board, "w")
            /\ ZeroLegalMoves(board, "b")
            /\ KingCapturable(board, "b"))
              => game_status = 1

\* A move has checkmated Black with the clock below 100.
C3_Witness ==
    /\ ret # "panic"
    /\ ply > 0
    /\ board.halfmove_counter < 100
    /\ ~ZeroLegalMoves(board, "w")
    /\ ZeroLegalMoves(board, "b")
    /\ KingCapturable(board, "b")

\* C4: with the halfmove clock below 100, a position in which White has no
\* legal move and White's king is not attacked has status 3, and so has,
\* when White has a legal move, a position in which Black has no legal move
\* and Black's king is not attacked; this whether the side has no generated
\* move at all or has generated moves that all leave its king attacked.
C4_StalemateStatus ==
    (ret # "panic" /\ board.halfmove_counter < 100) =>
        /\ (ZeroLegalMoves(board, "w") /\ ~KingCapturable(board, "w"))
              => game_status = 3
        /\ (/\ ~ZeroLegalMoves(board, "w")
            /\ ZeroLegalMoves(board, "b")
            /\ ~KingCapturable(board, "b"))
              => game_status = 3

\* The calls of tests::test_2_move_mate (lines 1210-1230) and the fields the
\* test reads in the fen after each of them.
FoolsMate ==
    <<<< <<"f", "2">>, <<"f", "3">> >>,
      << <<"e", "7">>, <<"e", "5">> >>,
      << <<"g", "2">>, <<"g", "4">> >>,
      << <<"d", "8">>, <<"h", "4">> >> >>

FoolsMateFields ==
    << << <<"-">>,      <<"0">>, <<"1">> >>,
       << <<"e", "6">>, <<"0">>, <<"2">> >>,
       << <<"g", "3">>, <<"0">>, <<"2">> >>,
       << <<"-">>,      <<"1">>, <<"3">> >> >>

\* C5: from the starting position the calls f2-f3, e7-e5, g2-g4, d8-h4 each
\* return true; after the n-th of them the en-passant field of the fen and
\* of the board reads '-', 'e6', 'g3', '-' and the halfmove / fullmove
\* fields read 0/1, 0/2, 0/2, 1/3; after the last one White's king is
\* attacked, White has no legal move and the status is 2.
C5_FoolsMate ==
    (Scenarios[scenario].text = FenStart /\ ret # "panic") =>
        \A n \in 0..4 :
            history = SubSeq(FoolsMate, 1, n) =>
                /\ n < 4 =>
                      \A o \in Outcomes(Self, {FoolsMate[n + 1]}) : o.out.ret = "true"
                /\ n > 0 =>
                      /\ SubSeq(split(fen, " "), 4, 6) = FoolsMateFields[n]
                      /\ board.en_passant_square = FoolsMateFields[n][1]
                      /\ format_int(board.halfmove_counter) = FoolsMateFields[n][2]
                      /\ format_int(board.turn_counter) = FoolsMateFields[n][3]
                /\ n = 4 =>
                      /\ KingCapturable(board, "w")
                      /\ checks[1]
                      /\ ZeroLegalMoves(board, "w")
                      /\ game_status = 2

\* The four calls have been made.
C5_Witness ==
    /\ Scenarios[scenario].text = FenStart
    /\ ret = "true"
    /\ history = FoolsMate
    /\ game_status = 2

\* C6: whenever the halfmove clock is 100 or more after an executed move,
\* the status is 4, also when White or Black has no legal move.
C6_FiftyMovePrecedence ==
    (ret # "panic" /\ ply > 0 /\ board.halfmove_counter >= 100) => game_status = 4

\* C7: a Game that new_from_fen has just constructed from a position whose
\* halfmove clock is 100 has status 4.
C7_FiftyMoveAtConstruction ==
    (op = "new" /\ board.halfmove_counter = 100) => game_status = 4

\* The squares of the last executed call.
LastSource == get_board_coords(Last(history)[1])
LastTarget == get_board_coords(Last(history)[2])

Abs(n) == IF n < 0 THEN -n ELSE n

\* The last executed call moved a king two files along its row.
LastCastled ==
    /\ history # <<>>
    /\ get_piece(board, LastTarget) \in {"K", "k"}
    /\ LastSource[1] = LastTarget[1]
    /\ Abs(LastSource[2] - LastTarget[2]) = 2

\* C8: after an executed two-file king move, of either colour and to either
\* wing, a rook of the mover's colour stands next to the king on the side it
\* came from (f-file for the kingside, d-file for the queenside), the corner
\* that rook came from (h-file resp. a-file of the king's row) is empty and
\* the king stands on the g-file resp. the c-file.
C8_CastlingRelocatesRook ==
    (ret # "panic" /\ LastCastled) =>
        LET row  == LastTarget[1]
            king == get_piece(board, LastTarget)
            rook == IF king = "K" THEN "R" ELSE "r"
        IN  IF LastTarget[2] > LastSource[2]
            THEN /\ LastTarget[2] = 6
                 /\ At(board.board_state, row, 5) = rook
                 /\ At(board.board_state, row, 7) = "*"
            ELSE /\ LastTarget[2] = 2
                 /\ At(board.board_state, row, 3) = rook
                 /\ At(board.board_state, row, 0) = "*"

Rights == {"K", "Q", "k", "q"}

\* C9: no make_move or set_promotion step adds a castling right: a right
\* (K, Q, k or q) in castling_availability after the step was in it before,
\* so a right once absent is absent in every later state.
C9_CastlingRightsNeverReturn ==
    [][\A c \in Rights :
          contains(board'.castling_availability, c)
              => contains(board.castling_availability, c)]_vars

\* White's king moved first from e1, losing K and Q, and a further move has
\* been executed since.
C9_Witness ==
    /\ Scenarios[scenario].text = FenCastling
    /\ ply >= 2
    /\ history[1][1] = <<"e", "1">>
    /\ ~contains(board.castling_availability, "K")
    /\ ~contains(board.castling_availability, "Q")

\* The castling field once the rights in `gone` have left it.
Without(ca, gone) ==
    LET rest == SelectSeq(ca, LAMBDA ch : ch \notin gone)
    IN  IF rest = <<>> THEN <<"-">> ELSE rest

\* C10: an executed move of a king clears both rights of its colour; an
\* executed move of a rook from a1, h1, a8 or h8 clears the one right of that
\* corner (Q, K, q, k) and no other; the field is '-' when no right remains.
C10_CastlingRightsCleared ==
    [][(op' = "make_move" /\ history' # history) =>
          LET source == get_board_coords(Last(history')[1])
              piece  == get_piece(board, source)
              before == board.castling_availability
              after  == board'.castling_availability
          IN  /\ piece = "K" => after = Without(before, {"K", "Q"})
              /\ piece = "k" => after = Without(before, {"k", "q"})
              /\ (piece = "R" /\ source = <<7, 0>>) => after = Without(before, {"Q"})
              /\ (piece = "R" /\ source = <<7, 7>>) => after = Without(before, {"K"})
              /\ (piece = "r" /\ source = <<0, 0>>) => after = Without(before, {"q"})
              /\ (piece = "r" /\ source = <<0, 7>>) => after = Without(before, {"k"})
              /\ (\A c \in Rights : ~contains(after, c)) => after = <<"-">>]_vars

\* Black's rook has left a8 after White's king had moved: only k remains.
C10_Witness ==
    /\ history # <<>>
    /\ Last(history) = << <<"a", "8">>, <<"b", "8">> >>
    /\ get_piece(board, <<0, 1>>) = "r"
    /\ board.castling_availability = <<"k">>

\* A step in which make_move executes a move, the squares of that move and
\* the piece that stood on its source square.
Executed == op' = "make_move" /\ history' # history
MovedFrom == get_board_coords(Last(history')[1])
MovedTo == get_board_coords(Last(history')[2])
MovedPiece == get_piece(board, MovedFrom)

\* The executed move is a pawn's advance of two rows.
DoublePush ==
    /\ MovedPiece \in {"P", "p"}
    /\ MovedFrom[2] = MovedTo[2]
    /\ Abs(MovedFrom[1] - MovedTo[1]) = 2

\* The square a two-row advance passes over.
Skipped(source, target) == <<(source[1] + target[1]) \div 2, source[2]>>

\* C11: after an executed move the en-passant square is the skipped square
\* when the move was a pawn's two-square advance and '-' after any other
\* move, one-square pawn advances and pawn captures included.
C11_EnPassantTarget ==
    [][Executed =>
          board'.en_passant_square =
              IF DoublePush THEN get_algebraic_notation(Skipped(MovedFrom, MovedTo))
              ELSE NoEp]_vars

\* The last executed call was a pawn's advance of two rows.
LastDoublePush ==
    /\ history # <<>>
    /\ get_piece(board, LastTarget) \in {"P", "p"}
    /\ LastSource[2] = LastTarget[2]
    /\ Abs(LastSource[1] - LastTarget[1]) = 2

\* The pawn letter of a colour.
PawnOf(color) == IF color = "w" THEN "P" ELSE "p"

\* C12: right after a pawn's two-square advance, every pawn of the side to
\* move that stands beside the advanced pawn on its row has the skipped
\* square among its legal moves, unless that capture would leave its own
\* king attacked; on every file of the skipped square and for both colours.
C12_EnPassantAvailable ==
    (ret # "panic" /\ LastDoublePush) =>
        \A dx \in {-1, 1} :
            LET pawn == <<LastTarget[1], LastTarget[2] + dx>>
                skipped == Skipped(LastSource, LastTarget)
            IN  (/\ OnBoard(pawn[1], pawn[2])
                 /\ get_piece(board, pawn) = PawnOf(board.active_player)
                 /\ ~KingCapturable(AfterMove(board, pawn, skipped), board.active_player))
                    => InLegalSet(board, board.active_player, pawn, skipped)

\* The executed move is an en-passant capture: a pawn goes diagonally onto
\* the empty recorded en-passant square while an enemy pawn stands beside
\* it, on the file of that square.
EnPassantCapture ==
    /\ Executed
    /\ MovedPiece \in {"P", "p"}
    /\ MovedFrom[2] # MovedTo[2]
    /\ get_piece(board, MovedTo) = "*"
    /\ board.en_passant_square # NoEp
    /\ get_board_coords(board.en_passant_square) = MovedTo
    /\ get_piece(board, <<MovedFrom[1], MovedTo[2]>>) = PawnOf(Enemy(board.active_player))

\* C13: an executed en-passant capture leaves the capturing pawn on the
\* en-passant square, empties its source square and the square of the enemy
\* pawn (file of the target, row of the source), and changes no other square.
C13_EnPassantCaptureRemovesPawn ==
    [][EnPassantCapture =>
          board'.board_state =
              SetSquare(SetSquare(SetSquare(board.board_state,
                                            MovedFrom[1], MovedFrom[2], "*"),
                                  MovedTo[1], MovedTo[2], MovedPiece),
                        MovedFrom[1], MovedTo[2], "*")]_vars

\* Black has captured en passant on c3: the pawn stands on c3 and c4, where
\* the white pawn had advanced to, is empty.
C13_Witness ==
    /\ history # <<>>
    /\ Last(history) = << <<"b", "4">>, <<"c", "3">> >>
    /\ get_piece(board, <<5, 2>>) = "p"
    /\ get_piece(board, <<4, 2>>) = "*"
    /\ get_piece(board, <<4, 1>>) = "*"

\* The executed move takes a pawn to its farthest row: row 0 (rank 8) for
\* White, row 7 (rank 1) for Black.
PawnReachesLastRow ==
    /\ Executed
    /\ \/ MovedPiece = "P" /\ MovedTo[1] = 0
       \/ MovedPiece = "p" /\ MovedTo[1] = 7

\* C14: when make_move takes a pawn to its farthest rank, the target square
\* then holds the piece of promotion_selection in the mover's colour, which
\* is no pawn; it is a queen when set_promotion has never been called.
C14_PromotionPiece ==
    [][PawnReachesLastRow =>
          LET promoted == get_piece(board', MovedTo)
          IN  /\ eq_ignore_ascii_case(promoted, board.promotion_selection)
              /\ MovedPiece = "P" => promoted \in {"B", "N", "R", "Q"}
              /\ MovedPiece = "p" => promoted \in {"b", "n", "r", "q"}
              /\ arg = "none" => eq_ignore_ascii_case(promoted, "q")]_vars

\* After set_promotion('n') the white pawn has promoted on a8 to a knight.
C14_Witness ==
    /\ history # <<>>
    /\ Last(history) = << <<"a", "7">>, <<"a", "8">> >>
    /\ board.promotion_selection = "n"
    /\ get_piece(board, <<0, 0>>) = "N"

\* The characters set_promotion is to accept.
PromotionPieces == {"b", "n", "r", "q", "B", "N", "R", "Q"}

\* C15: a set_promotion call with b, n, r or q in either case returns true
\* and stores that character as the selection, changing nothing else of the
\* board; with any other character it returns false and leaves the board,
\* the earlier selection included, as it was.
C15_SetPromotion ==
    [][op' = "set_promotion" =>
          IF arg' \in PromotionPieces
          THEN /\ ret' = "true"
               /\ board' = [board EXCEPT !.promotion_selection = arg']
          ELSE /\ ret' = "false"
               /\ board' = board]_vars

\* set_promotion('n') was accepted, set_promotion('p') rejected, and the
\* pawn that then reached a8 became a knight.
C15_Witness ==
    /\ arg = "p"
    /\ board.promotion_selection = "n"
    /\ history # <<>>
    /\ Last(history) = << <<"a", "7">>, <<"a", "8">> >>
    /\ get_piece(board, <<0, 0>>) = "N"

\* C16: after an executed move the halfmove clock is 0 when the target
\* square was occupied before the move or the moved piece is a pawn (an
\* en-passant capture is a pawn move), else its earlier value plus 1; it is
\* never negative.
C16_HalfmoveClock ==
    [][Executed =>
          /\ board'.halfmove_counter =
                IF get_piece(board, MovedTo) # "*" \/ MovedPiece \in {"P", "p"}
                THEN 0
                ELSE board.halfmove_counter + 1
          /\ board'.halfmove_counter >= 0]_vars

\* The king has captured the rook on b2 with the clock at 100: it reads 0.
C16_Witness ==
    /\ Scenarios[scenario].text = FenFifty
    /\ history = << << <<"c", "1">>, <<"b", "2">> >> >>
    /\ get_piece(board, <<6, 1>>) = "K"
    /\ board.halfmove_counter = 0

\* C17: an executed move hands the turn to the other colour, adds 1 to the
\* fullmove number when Black moved and nothing when White moved, and the
\* piece it moved was of the colour whose turn it was.
C17_TurnFlip ==
    [][Executed =>
          /\ board.active_player = "w" =>
                /\ board'.active_player = "b"
                /\ board'.turn_counter = board.turn_counter
                /\ MovedPiece \in Upper
          /\ board.active_player = "b" =>
                /\ board'.active_player = "w"
                /\ board'.turn_counter = board.turn_counter + 1
                /\ MovedPiece \in Lower
          /\ board.active_player \in {"w", "b"}]_vars

\* From the starting position White and Black have each moved once: White
\* is to move in fullmove 2.
C17_Witness ==
    /\ Scenarios[scenario].text = FenStart
    /\ ply = 2
    /\ board.active_player = "w"
    /\ board.turn_counter = 2

\* C18: at construction and after every make_move that returned, the cached
\* flags are those of the check detector on the current board: checks[1] is
\* set exactly when a black piece has a generated destination on the white
\* king's square, checks[2] exactly when a white piece has one on the black
\* king's square.
C18_ChecksCached ==
    ret # "panic" =>
        checks = <<KingCapturable(board, "w"), KingCapturable(board, "b")>>

\* A move has given check to White.
C18_Witness ==
    /\ ret # "panic"
    /\ ply > 0
    /\ checks = <<TRUE, FALSE>>
    /\ KingCapturable(board, "w")
    /\ board.active_player = "w"

\* The home square of a colour's king and the king's letter.
HomeSquare(color) == <<IF color = "w" THEN 7 ELSE 0, 4>>
KingOf(color) == IF color = "w" THEN "K" ELSE "k"

\* A two-file move along the row from the home square, for a king there.
CastlingMove(b, color, source, target) ==
    /\ source = HomeSquare(color)
    /\ get_piece(b, source) = KingOf(color)
    /\ target[1] = source[1]
    /\ Abs(target[2] - source[2]) = 2

\* C19: for a colour whose king is attacked, the legal-move map holds no
\* castling move, whether or not the king would be safe where it lands.
C19_NoCastlingInCheck ==
    ret # "panic" =>
        \A color \in {"w", "b"} :
            KingCapturable(board, color) =>
                \A e \in LegalMoves(board, color) :
                    \A i \in 1..Len(e[2]) :
                        ~CastlingMove(board, color, e[1], e[2][i])

\* A move has given check to a king on its home square that has a generated
\* castling move to a square where it would not be attacked.
C19_Witness ==
    /\ ret # "panic"
    /\ ply > 0
    /\ KingCapturable(board, board.active_player)
    /\ \E e \in Generated(board, board.active_player) :
          \E i \in 1..Len(e[2]) :
              /\ CastlingMove(board, board.active_player, e[1], e[2][i])
              /\ ~KingCapturable(AfterMove(board, e[1], e[2][i]), board.active_player)

\* The number of moves a map holds.
MoveCount(output) ==
    Cardinality(UNION {{<<e[1], i>> : i \in 1..Len(e[2])} : e \in output})

\* C20: in the starting position the legal-move map of White holds exactly
\* 20 moves and so does the one computed for Black; the pawn on e2 has the
\* destinations e3 and e4 and no other; the status is 0 and neither check
\* flag is set.
C20_StartPosition ==
    (Scenarios[scenario].text = FenStart /\ ply = 0) =>
        /\ MoveCount(get_available_moves(board, "w", FALSE)) = 20
        /\ MoveCount(get_available_moves(board, "b", FALSE)) = 20
        /\ Lookup(get_available_moves(board, "w", FALSE), <<"e", "2">>)
              = << <<"e", "3">>, <<"e", "4">> >>
        /\ game_status = 0
        /\ checks = <<FALSE, FALSE>>

\* The game Game::new() constructs.
C20_Witness ==
    /\ op = "new"
    /\ fen = FenStart
    /\ board = parse_fen(FenStart)
    /\ board.active_player = "w"

(***************************************************************************)
(* The square-name conversions as a system of their own: a caller converts *)
(* any of the 64 square names, or any of the 64 coordinates.  No Game is   *)
(* involved: its fields stay empty.                                        *)
(***************************************************************************)
NoGame ==
    /\ fen = <<>>
    /\ board = <<>>
    /\ checks = <<>>
    /\ game_status = 0
    /\ scenario = 0
    /\ history = <<>>
    /\ ply = 0

SquareNames == {<<col_names[i], Digits[r + 1]>> : i \in 1..8, r \in 1..8}

SquaresInit == NoGame /\ op = "none" /\ arg = "none" /\ ret = "none"

GetBoardCoords ==
    /\ \E name \in SquareNames :
          /\ arg' = name
          /\ ret' = get_board_coords(name)
    /\ op' = "get_board_coords"
    /\ UNCHANGED <<fen, board, checks, game_status, scenario, history, ply>>

GetAlgebraicNotation ==
    /\ \E coords \in Coords :
          /\ arg' = coords
          /\ ret' = get_algebraic_notation(coords)
    /\ op' = "get_algebraic_notation"
    /\ UNCHANGED <<fen, board, checks, game_status, scenario, history, ply>>

SquaresNext == GetBoardCoords \/ GetAlgebraicNotation

SquaresSpec == SquaresInit /\ [][SquaresNext]_vars

\* The file index (0 = a) and the rank (1..8) a square name spells.
FileOf(name) == (CHOOSE i \in 1..8 : col_names[i] = name[1]) - 1
RankOf(name) == CHOOSE r \in 1..8 : Digits[r + 1] = name[2]

\* C21: get_board_coords and get_algebraic_notation are mutually inverse
\* between the 64 square names and the coordinates [row, col] of [0,7]^2,
\* with row = 8 - rank and col = file index: [0,0] is a8, [7,7] is h1,
\* d6 is [2,3] and b3 is [5,1].
C21_SquareNamesRoundTrip ==
    /\ op = "get_board_coords" =>
          /\ ret \in Coords
          /\ ret = <<8 - RankOf(arg), FileOf(arg)>>
          /\ get_algebraic_notation(ret) = arg
          /\ arg = <<"a", "8">> => ret = <<0, 0>>
          /\ arg = <<"h", "1">> => ret = <<7, 7>>
          /\ arg = <<"d", "6">> => ret = <<2, 3>>
          /\ arg = <<"b", "3">> => ret = <<5, 1>>
    /\ op = "get_algebraic_notation" =>
          /\ ret \in SquareNames
          /\ arg = <<8 - RankOf(ret), FileOf(ret)>>
          /\ get_board_coords(ret) = arg
          /\ arg = <<2, 3>> => ret = <<"d", "6">>
          /\ arg = <<5, 1>> => ret = <<"b", "3">>

C21_Witness == op = "get_board_coords" /\ arg = <<"d", "6">> /\ ret = <<2, 3>>

(***************************************************************************)
(* The position-text conversions as a system of their own: a caller parses *)
(* a well-formed text with parse_fen and writes the Board back with        *)
(* generate_fen.  The texts are put together from six well-formed fields.  *)
(***************************************************************************)
\* "8/8/8/8/8/8/8/8"
PlacementEmpty ==
    <<"8", "/", "8", "/", "8", "/", "8", "/", "8", "/", "8", "/", "8",
     "/", "8">>

\* "1p1p1p1p/p1p1p1p1/1P1P1P1P/P1P1P1P1/k7/7K/3qQ3/2r2R2"
PlacementAlternating ==
    <<"1", "p", "1", "p", "1", "p", "1", "p", "/", "p", "1", "p", "1", "p", "1", "p", "1",
     "/", "1", "P", "1", "P", "1", "P", "1", "P", "/", "P", "1", "P", "1", "P", "1", "P", "1", "/", "k", "7", "/", "7", "K", "/", "3", "q", "Q", "3", "/", "2", "r", "2", "R", "2">>

\* "rnbqkbn1/1ppppppp/p6r/8/8/P6R/1PPPPPPP/RNBQKBN1"
PlacementRooksOut ==
    <<"r", "n", "b", "q", "k", "b", "n", "1", "/", "1", "p", "p", "p", "p", "p", "p", "p",
     "/", "p", "6", "r", "/", "8", "/", "8", "/", "P", "6", "R", "/", "1", "P", "P", "P", "P", "P", "P", "P", "/", "R", "N", "B", "Q", "K", "B", "N", "1">>

\* "7k/6p1/5P2/4n3/3N4/2b5/1B6/K7"
PlacementDiagonal ==
    <<"7", "k", "/", "6", "p", "1", "/", "5", "P", "2", "/", "4", "n", "3",
     "/", "3", "N", "4", "/", "2", "b", "5", "/", "1", "B", "6", "/", "K", "7">>

\* The piece-placement fields: those of the scenarios' texts and four more.
Placements ==
    {split(Scenarios[i].text, " ")[1] : i \in 1..Len(Scenarios)}
      \cup {PlacementEmpty, PlacementAlternating, PlacementRooksOut,
            PlacementDiagonal}

CastlingTexts == {<<"-">>, <<"K", "Q", "k", "q">>, <<"K", "q">>}
EnPassantTexts == {<<"-">>, <<"e", "3">>, <<"a", "6">>}
HalfmoveTexts == {<<"0">>, <<"8">>, <<"1", "0", "0">>}
TurnTexts == {<<"1">>, <<"4", "7">>}

FenTexts ==
    {p \o <<" ", a, " ">> \o c \o <<" ">> \o e \o <<" ">> \o h \o <<" ">> \o t :
        p \in Placements, a \in {"w", "b"}, c \in CastlingTexts,
        e \in EnPassantTexts, h \in HalfmoveTexts, t \in TurnTexts}

FenInit ==
    /\ fen \in FenTexts
    /\ board = <<>>
    /\ checks = <<>>
    /\ game_status = 0
    /\ scenario = 0
    /\ history = <<>>
    /\ ply = 0
    /\ op = "none"
    /\ arg = "none"
    /\ ret = "none"

ParseFen ==
    /\ op = "none"
    /\ board' = parse_fen(fen)
    /\ op' = "parse_fen"
    /\ UNCHANGED <<fen, checks, game_status, scenario, history, ply, arg, ret>>

GenerateFen ==
    /\ op = "parse_fen"
    /\ ret' = generate_fen(board)
    /\ op' = "generate_fen"
    /\ UNCHANGED <<fen, board, checks, game_status, scenario, history, ply, arg>>

FenNext == ParseFen \/ GenerateFen

FenSpec == FenInit /\ [][FenNext]_vars

\* C22: for every well-formed position text t, generate_fen(parse_fen(t))
\* is t again.
C22_FenRoundTrip == op = "generate_fen" => ret = fen

C22_Witness ==
    /\ op = "generate_fen"
    /\ ret = fen
    /\ fen = PlacementAlternating \o <<" ", "b", " ", "K", "q", " ", "a", "6",
                                       " ", "1", "0", "0", " ", "4", "7">>

\* C23: every make_move call with valid square names completes and returns
\* true or false: no reachable position makes the legal-move computation or
\* the status evaluation abort, not even one where the side in check has
\* its king on e1 / e8 without any pseudo-legal move.
C23_MakeMoveCompletes == op = "make_move" => ret \in {"true", "false"}

\* C24: every key of the map the legal-move computation returns (with
\* force_no_check false) has a non-empty list of destinations: a piece
\* whose pseudo-legal moves are all discarded because each would leave its
\* own king attacked is dropped from the map, also when its side is not in
\* check.
C24_NoEmptyEntries ==
    (ret # "panic" /\ ~MovesPanic(board, board.active_player)) =>
        \A e \in LegalMoves(board, board.active_player) : e[2] # <<>>

(***************************************************************************)
(* The move generator as a system of its own: get_piece_movements is       *)
(* called, as get_available_moves_internal calls it (lines 208-229), for a *)
(* piece of a board with the piece's own colour.  The boards are three     *)
(* positions, each as it is and with one more piece on any empty square.   *)
(***************************************************************************)
\* Both kings and all four rooks at home with every right, pawns on the b
\* and g files.
\* "r3k2r/1p4p1/8/8/8/8/1P4P1/R3K2R w KQkq - 0 1"
BaseCastling ==
    <<"r", "3", "k", "2", "r", "/", "1", "p", "4", "p", "1", "/", "8", "/",
     "8", "/", "8", "/", "8", "/", "1", "P", "4", "P", "1", "/", "R", "3",
     "K", "2", "R", " ", "w", " ", "K", "Q", "k", "q", " ", "-", " ", "0",
     " ", "1">>

\* The same placement with White's kingside and Black's queenside right only.
\* "r3k2r/1p4p1/8/8/8/8/1P4P1/R3K2R b Kq - 0 1"
BaseHalfRights ==
    <<"r", "3", "k", "2", "r", "/", "1", "p", "4", "p", "1", "/", "8", "/",
     "8", "/", "8", "/", "8", "/", "1", "P", "4", "P", "1", "/", "R", "3",
     "K", "2", "R", " ", "b", " ", "K", "q", " ", "-", " ", "0", " ",
     "1">>

\* A king in the corner, a king in the middle, a rook in the corner.
\* "k7/8/8/3K4/8/8/8/7R w - - 0 1"
BaseOpen ==
    <<"k", "7", "/", "8", "/", "8", "/", "3", "K", "4", "/", "8", "/", "8",
     "/", "8", "/", "7", "R", " ", "w", " ", "-", " ", "-", " ", "0", " ",
     "1">>

\* A text with a character that is no piece letter: parse_fen (line 44)
\* puts it on the board as it is.
\* "k7/8/8/3x4/8/8/8/7K w - - 0 1"
BaseForeign ==
    <<"k", "7", "/", "8", "/", "8", "/", "3", "x", "4", "/", "8", "/", "8", "/", "8",
     "/", "7", "K", " ", "w", " ", "-", " ", "-", " ", "0", " ", "1">>

PieceBases == {parse_fen(BaseCastling), parse_fen(BaseHalfRights), parse_fen(BaseOpen)}

\* The pieces put on an empty square; a pawn stands on rows 1..6 only.
PlacedPieces == {"P", "N", "B", "R", "Q", "p", "n", "b", "r", "q"}

Placeable(b, coords, piece) ==
    /\ get_piece(b, coords) = "*"
    /\ to_ascii_lowercase(piece) = "p" => coords[1] \in 1..6

PieceBoards ==
    PieceBases
      \cup {parse_fen(BaseForeign)}
      \cup {set_piece(x[1], x[2], x[3]) :
              x \in {y \in PieceBases \X Coords \X PlacedPieces :
                       Placeable(y[1], y[2], y[3])}}

ColorOf(piece) == IF is_ascii_uppercase(piece) THEN "w" ELSE "b"

PiecesInit ==
    /\ board \in PieceBoards
    /\ fen = <<>>
    /\ checks = <<>>
    /\ game_status = 0
    /\ scenario = 0
    /\ history = <<>>
    /\ ply = 0
    /\ op = "none"
    /\ arg = "none"
    /\ ret = "none"

GetPieceMovements ==
    /\ op = "none"
    /\ \E coords \in Coords :
          LET piece == get_piece(board, coords)
          IN  /\ piece # "*"
              /\ arg' = coords
              /\ ret' = IF PiecePanics(board, coords, piece, ColorOf(piece))
                        THEN "panic"
                        ELSE get_piece_movements(board, coords, piece,
                                                 ColorOf(piece))
    /\ op' = "get_piece_movements"
    /\ UNCHANGED <<fen, board, checks, game_status, scenario, history, ply>>

\* The same call for an empty square of one of the positions as they are.
GetEmptySquareMovements ==
    /\ op = "none"
    /\ board \in PieceBases \cup {parse_fen(BaseForeign)}
    /\ \E coords \in Coords : \E color \in {"w", "b"} :
          /\ get_piece(board, coords) = "*"
          /\ arg' = coords
          /\ ret' = IF PiecePanics(board, coords, "*", color)
                    THEN "panic"
                    ELSE get_piece_movements(board, coords, "*", color)
    /\ op' = "get_piece_movements"
    /\ UNCHANGED <<fen, board, checks, game_status, scenario, history, ply>>

PiecesNext == GetPieceMovements \/ GetEmptySquareMovements

PiecesSpec == PiecesInit /\ [][PiecesNext]_vars

\* The piece the last get_piece_movements call was about, its colour, and
\* the set of destinations returned.
Queried == get_piece(board, arg)
QueriedColor == ColorOf(Queried)
Destinations == {ret[i] : i \in 1..Len(ret)}
Moved(kinds) == op = "get_piece_movements" /\ Queried \in kinds

\* The columns strictly between the king and the rook of a wing.
BetweenKingside == {5, 6}
BetweenQueenside == {1, 2, 3}

AllEmpty(b, row, columns) == \A x \in columns : At(b.board_state, row, x) = "*"

\* C25: the pseudo-legal moves of a king on its home square include a
\* castling move exactly when the right of that wing is set and all squares
\* strictly between king and rook are empty: f and g for the kingside, b, c
\* and d for the queenside, for White and Black alike.
C25_CastlingMoves ==
    (Moved({"K", "k"}) /\ arg = HomeSquare(QueriedColor)) =>
        LET row == arg[1]
            ks  == IF QueriedColor = "w" THEN "K" ELSE "k"
            qs  == IF QueriedColor = "w" THEN "Q" ELSE "q"
        IN  /\ <<row, 6>> \in Destinations
                <=> /\ contains(board.castling_availability, ks)
                    /\ AllEmpty(board, row, BetweenKingside)
            /\ <<row, 2>> \in Destinations
                <=> /\ contains(board.castling_availability, qs)
                    /\ AllEmpty(board, row, BetweenQueenside)

\* The en-passant square of the board was created by the opponent's advance
\* of two rows on the ply before (for the constructed position: by the move
\* its text records).
FreshEnPassant ==
    /\ board.en_passant_square # NoEp
    /\ history # <<>> =>
          /\ LastDoublePush
          /\ Skipped(LastSource, LastTarget)
                = get_board_coords(board.en_passant_square)

\* C26: make_move never accepts a pawn's diagonal move unless its target
\* holds an enemy piece or is the en-passant target created by the
\* opponent's two-square advance on the ply before; a pawn never moves
\* diagonally onto any other empty square.
C26_PawnDiagonalMoves ==
    [][(Executed /\ MovedPiece \in {"P", "p"} /\ MovedFrom[2] # MovedTo[2]) =>
          \/ is_enemy_piece(board.active_player, get_piece(board, MovedTo))
          \/ /\ FreshEnPassant
             /\ get_board_coords(board.en_passant_square) = MovedTo]_vars

\* The row a pawn of a colour advances to from row y.
Ahead(color, y) == IF color = "w" THEN y - 1 ELSE y + 1

\* C27: whenever an enemy piece stands diagonally forward-adjacent to a
\* pawn, that capture is among the pawn's pseudo-legal moves: on both
\* diagonals, for every pair of files (b to a and g to h included) and for
\* both colours.
C27_PawnCaptures ==
    Moved({"P", "p"}) =>
        \A dx \in {-1, 1} :
            LET target == <<Ahead(QueriedColor, arg[1]), arg[2] + dx>>
            IN  (/\ OnBoard(target[1], target[2])
                 /\ is_enemy_piece(QueriedColor, get_piece(board, target)))
                    => target \in Destinations

\* The row a pawn of a colour starts the game on.
StartRow(color) == IF color = "w" THEN 6 ELSE 1

\* C28: among a pawn's moves the one-row advance is present exactly when
\* the square ahead is empty, the two-row advance exactly when the pawn
\* stands on its starting row (6 for White, 1 for Black) and both the square
\* passed and the destination are empty; there is no other move on the
\* pawn's own file.
C28_PawnAdvances ==
    Moved({"P", "p"}) =>
        LET y    == arg[1]
            x    == arg[2]
            one  == Ahead(QueriedColor, y)
            two  == Ahead(QueriedColor, one)
        IN  /\ <<one, x>> \in Destinations <=> get_piece(board, <<one, x>>) = "*"
            /\ <<two, x>> \in Destinations
                  <=> /\ y = StartRow(QueriedColor)
                      /\ get_piece(board, <<one, x>>) = "*"
                      /\ get_piece(board, <<two, x>>) = "*"
            /\ \A d \in Destinations : d[2] = x => d \in {<<one, x>>, <<two, x>>}

\* A black pawn on b7 with a piece on b5: it may advance to b6 only.
C28_Witness ==
    /\ Moved({"p"})
    /\ arg = <<1, 1>>
    /\ get_piece(board, <<2, 1>>) = "*"
    /\ get_piece(board, <<3, 1>>) # "*"
    /\ Destinations = {<<2, 1>>}

Diagonals == {<<1, 1>>, <<1, -1>>, <<-1, 1>>, <<-1, -1>>}
Orthogonals == {<<0, 1>>, <<0, -1>>, <<1, 0>>, <<-1, 0>>}

\* The squares a piece of `color` on `from` reaches along one direction:
\* those on the board with only empty squares before them that do not hold
\* a piece of its own colour.
Ray(b, color, from, dir) ==
    {<<from[1] + k * dir[1], from[2] + k * dir[2]>> :
        k \in {n \in 1..7 :
                 /\ OnBoard(from[1] + n * dir[1], from[2] + n * dir[2])
                 /\ \A j \in 1..(n - 1) :
                        At(b.board_state, from[1] + j * dir[1],
                           from[2] + j * dir[2]) = "*"
                 /\ ~is_friendly_piece(color,
                        At(b.board_state, from[1] + n * dir[1],
                           from[2] + n * dir[2]))}}

Rays(b, color, from, dirs) == UNION {Ray(b, color, from, dir) : dir \in dirs}

\* C29: the destinations of a bishop are exactly the squares reached along
\* the four diagonals, those of a rook along the four orthogonal lines,
\* those of a queen along all eight: each line is walked to the edge of the
\* board, stops before the first piece of the mover's colour, and includes
\* the first enemy piece and nothing behind it.  Every destination is on
\* the board.
C29_SlidingMoves ==
    /\ Moved({"B", "b"}) =>
          Destinations = Rays(board, QueriedColor, arg, Diagonals)
    /\ Moved({"R", "r"}) =>
          Destinations = Rays(board, QueriedColor, arg, Orthogonals)
    /\ Moved({"Q", "q"}) =>
          Destinations = Rays(board, QueriedColor, arg, Diagonals \cup Orthogonals)
    /\ Moved({"B", "b", "R", "r", "Q", "q"}) => Destinations \subseteq Coords

\* A white rook on b4 between the pawns on b7 (Black's) and b2 (its own):
\* it reaches b7 and b3 but neither b8 nor b2.
C29_Witness ==
    /\ Moved({"R"})
    /\ arg = <<4, 1>>
    /\ get_piece(board, <<1, 1>>) = "p"
    /\ get_piece(board, <<6, 1>>) = "P"
    /\ <<1, 1>> \in Destinations
    /\ <<0, 1>> \notin Destinations
    /\ <<5, 1>> \in Destinations
    /\ <<6, 1>> \notin Destinations

KnightOffsets ==
    {<<2, 1>>, <<2, -1>>, <<-2, 1>>, <<-2, -1>>,
     <<1, 2>>, <<-1, 2>>, <<1, -2>>, <<-1, -2>>}

KingOffsets ==
    {<<1, 0>>, <<-1, 0>>, <<0, 1>>, <<0, -1>>,
     <<1, 1>>, <<1, -1>>, <<-1, 1>>, <<-1, -1>>}

\* The squares at the given offsets from `from`, on the board or not.
Around(from, offsets) == {<<from[1] + o[1], from[2] + o[2]>> : o \in offsets}

\* Those of them that are on the board and hold no piece of `color`.
Free(b, color, from, offsets) ==
    {sq \in Around(from, offsets) :
        /\ OnBoard(sq[1], sq[2])
        /\ ~is_friendly_piece(color, get_piece(b, sq))}

\* C30: a square at one of the knight's eight offsets is among the knight's
\* destinations, and a square adjacent to the king among the king's, exactly
\* when it is on the board and holds no piece of the mover's colour; from
\* every square, edges and corners included.  The knight has no other
\* destination.
C30_KnightAndKingMoves ==
    /\ Moved({"N", "n"}) =>
          Destinations = Free(board, QueriedColor, arg, KnightOffsets)
    /\ Moved({"K", "k"}) =>
          Destinations \cap Around(arg, KingOffsets)
              = Free(board, QueriedColor, arg, KingOffsets)

\* The black king in the corner a8 beside its own knight on b8: it may step
\* to a7 and b7 only.
C30_Witness ==
    /\ Moved({"k"})
    /\ arg = <<0, 0>>
    /\ get_piece(board, <<0, 1>>) = "n"
    /\ Destinations = {<<1, 0>>, <<1, 1>>}

\* The colour a castling right belongs to, and the corner its rook starts on.
RightColor(c) == IF c \in {"K", "Q"} THEN "w" ELSE "b"
RightCorner(c) ==
    CASE c = "K" -> <<7, 7>> [] c = "Q" -> <<7, 0>>
      [] c = "k" -> <<0, 7>> [] c = "q" -> <<0, 0>>

\* C31: an executed move leaves a castling right as it was unless it is a
\* move of that colour's king or of that colour's rook from the corner of
\* that wing (a1 for Q, h1 for K, a8 for q, h8 for k); a rook moving from
\* any other square, and any other piece, clears no right.
C31_CastlingRightsKept ==
    [][Executed =>
          \A c \in Rights :
              (/\ contains(board.castling_availability, c)
               /\ MovedPiece # KingOf(RightColor(c))
               /\ ~(/\ MovedPiece = (IF RightColor(c) = "w" THEN "R" ELSE "r")
                    /\ MovedFrom = RightCorner(c)))
                 => contains(board'.castling_availability, c)]_vars

\* The number of squares of a board holding one of the given pieces.
CountOf(b, pieces) == Cardinality({c \in Coords : get_piece(b, c) \in pieces})

\* C32: after any sequence of executed moves the board holds exactly one
\* white king and exactly one black king: no executed move (capture,
\* en-passant removal, castling rook placement, promotion) removes or
\* overwrites a king.
C32_OneKingEach ==
    /\ CountOf(board, {"K"}) = 1
    /\ CountOf(board, {"k"}) = 1

\* C33: an executed move never increases the number of pieces of either
\* colour: the mover keeps its number of pieces (promotion replaces the pawn
\* one for one, castling only relocates the mover's own rook) and the
\* opponent loses at most one.
C33_PieceCounts ==
    [][Executed =>
          LET own   == IF board.active_player = "w" THEN Upper ELSE Lower
              other == IF board.active_player = "w" THEN Lower ELSE Upper
          IN  /\ CountOf(board', own) = CountOf(board, own)
              /\ CountOf(board', other) \in
                    {CountOf(board, other), CountOf(board, other) - 1}]_vars

\* C34: the terminal statuses are absorbing: once game_status is not 0
\* (checkmate 1 or 2, stalemate 3, fifty-move draw 4) no later make_move
\* call changes it, neither back to 0 nor to another terminal value.
C34_TerminalStatusKept ==
    [][(game_status # 0 /\ op' = "make_move") => game_status' = game_status]_vars

\* The square of the king of a colour (the board holds one).
KingSquare(b, color) == CHOOSE c \in Coords : get_piece(b, c) = KingOf(color)

\* Under the rules of chess an enemy pawn attacks the king of `color`: the
\* pawn stands on an adjacent file, one row nearer to its own side.
PawnAttacksKing(b, color) ==
    LET king == KingSquare(b, color)
        row  == IF color = "w" THEN king[1] - 1 ELSE king[1] + 1
    IN  \E dx \in {-1, 1} :
            /\ OnBoard(row, king[2] + dx)
            /\ get_piece(b, <<row, king[2] + dx>>) = PawnOf(Enemy(color))

\* C35: after an executed move the king of the side that has just moved
\* does not stand on a square attacked by an enemy pawn, on any file, a and
\* h included.
C35_NoKingUnderPawnAttack ==
    (history # <<>> /\ CountOf(board, {"K"}) = 1 /\ CountOf(board, {"k"}) = 1) =>
        ~PawnAttacksKing(board, Enemy(board.active_player))

\* No pawn stands on the first or the last row.
NoEdgePawn(b) ==
    \A c \in Coords : get_piece(b, c) \in {"P", "p"} => c[1] \in 1..6

\* A castling right is set only while the king of its colour is on e1 / e8.
RightsAtHome(b) ==
    \A c \in Rights :
        contains(b.castling_availability, c)
            => get_piece(b, HomeSquare(RightColor(c))) = KingOf(RightColor(c))

\* The squares behind and before the en-passant square are on the board.
RemovalOnBoard(b) ==
    b.en_passant_square # NoEp =>
        get_board_coords(b.en_passant_square)[1] \in 1..6

\* Neither the generation of the moves of `color` nor the execution of any
\* of them, nor the generation that follows it, indexes outside the board.
IndexedInside(b, color) ==
    /\ ~GenerationPanics(b, color)
    /\ \A e \in Generated(b, color) : \A i \in 1..Len(e[2]) :
          /\ ~MovePanics(b, e[1], e[2][i])
          /\ ~GenerationPanics(move_piece(b, e[1], e[2][i]), Enemy(color))

\* C36: after any sequence of executed moves neither move generation nor
\* move execution indexes the board outside rows and columns 0..7: no pawn
\* stands on row 0 or row 7, a castling right is set only while that
\* colour's king is on the e-file of its home row, and the en-passant
\* removal square is on the board.
C36_IndexesInsideBoard ==
    /\ NoEdgePawn(board)
    /\ RightsAtHome(board)
    /\ RemovalOnBoard(board)
    /\ IndexedInside(board, "w")
    /\ IndexedInside(board, "b")

\* White's pawn has reached a8 and has been replaced there.
C36_Witness ==
    /\ history # <<>>
    /\ Last(history) = <<<<"a", "7">>, <<"a", "8">>>>
    /\ get_piece(board, <<0, 0>>) \in Upper \ {"P"}
    /\ NoEdgePawn(board)

C38_FenInSync ==
    (op = "make_move" /\ ret = "true") => fen = generate_fen(board)

\* Two moves have been executed and the fen field no longer is the text the
\* Game was constructed from.
C38_Witness ==
    /\ op = "make_move"
    /\ ret = "true"
    /\ Len(history) = 2
    /\ fen # Scenarios[scenario].text
    /\ fen = generate_fen(board)

\* The board with the other side to move and nothing else changed.
OtherTurn(b) == [b EXCEPT !.active_player = Enemy(b.active_player)]

\* C39: the legal moves of a colour depend on the squares, the castling
\* rights and the en-passant square only: the board that differs from the
\* current one in the side to move alone yields the same legal moves, for
\* White and for Black.
C39_MovesIgnoreTurn ==
    \A color \in {"w", "b"} :
        /\ MovesPanic(board, color) = MovesPanic(OtherTurn(board), color)
        /\ ~MovesPanic(board, color)
              => LegalMoves(board, color) = LegalMoves(OtherTurn(board), color)

=============================================================================
